---------------------------- MODULE Spec2Model ----------------------------
(***************************************************************************)
(* A model of the natural-language-to-SQL query pipeline of the backend:   *)
(* the SQL safety gate and row limiter (app/utils/sanitizer.py), the SQL   *)
(* synthesizer with its deterministic fallback (app/llm/sql_generator.py), *)
(* the result interpreter (app/llm/answer_formatter.py) and the request    *)
(* handler that chains them (app/routes/query.py).                         *)
(*                                                                         *)
(* Python strings are TLA+ strings; Len, \o and SubSeq act on them         *)
(* character by character.  The alphabet is ASCII: str.lower(), str.upper()*)
(* and the regular-expression classes \s, \b are modelled on ASCII text.   *)
(***************************************************************************)
EXTENDS Integers, Sequences, FiniteSets, TLC

VARIABLES
    pc,                 \* position of the running operation
    USE_LOCAL_FALLBACK, \* the module constant of sql_generator and answer_formatter
    db_tables,          \* the tables of the database
    req,                \* the QueryRequest: userQuery, includeSchema, maxRows
    schema,             \* schema summary handed to generate_sql
    detailed_schema,    \* result of get_detailed_schema inside generate_sql
    sql_backend,        \* what the backend call of generate_sql did
    sql,                \* the candidate SQL string
    safe,               \* verdict of is_safe_select: "unset", "accept", "reject"
    max_rows,           \* the row limit handed to wrap_with_limit
    wrapped_sql,        \* statement text returned by wrap_with_limit
    params,             \* bind parameters returned by wrap_with_limit
    session,            \* database session: "none", "open", "closed"
    executed,           \* statements sent to the database, with parameters
    rows,               \* the fetched Row Set
    answer_backend,     \* what the backend call of format_answer did
    response,           \* what run_query gives its caller
    log,                \* the calls made for the request, in order
    raised,             \* the calls of the request in which an exception was raised
    query_type,         \* the classification computed by format_answer
    business_context,   \* the Business Context computed by format_answer
    classified,         \* the calls of detect_query_type made so far, with their results
    environ,            \* os.environ["USE_LOCAL_FALLBACK"]: [set, value]
    original_env,       \* the value test_pipeline saved before forcing the variable
    suspended           \* the locals of the request whose coroutine is not running

\* the variables of a request other than the candidate SQL and its bounding
\* the variables of the Result Interpreter
interpreter_vars == <<query_type, business_context, classified>>

\* the state of the process that no request of run_query changes, and the
\* request that is not running
process_vars == <<environ, original_env, suspended>>

request_vars == <<process_vars, USE_LOCAL_FALLBACK, db_tables, req, schema, detailed_schema,
                  sql_backend, session, executed, rows, answer_backend,
                  response, log, raised, interpreter_vars>>

vars == <<pc, USE_LOCAL_FALLBACK, db_tables, req, schema, detailed_schema,
          sql_backend, sql, safe, max_rows, wrapped_sql, params, session,
          executed, rows, answer_backend, response, log, raised,
          query_type, business_context, classified,
          environ, original_env, suspended>>

-----------------------------------------------------------------------------
(* Bounds of the model *)

\* Largest number of fragments concatenated into a candidate SQL string
MaxFrags == 3

\* Largest number of words in a question handed to the fallback synthesizer
MaxWords == 2

-----------------------------------------------------------------------------
(* Python str primitives *)

\* Python evaluates the right-hand side of an assignment, and the argument
\* of a call, once: With(x, LAMBDA v : e) is e with v naming the value of x
With(x, Body(_)) == CHOOSE r \in {Body(v) : v \in {x}} : TRUE

Char(s, i) == SubSeq(s, i, i)

\* sub in s
Contains(s, sub) ==
    \E t \in {s} :
        \E i \in 1..(Len(t) - Len(sub) + 1) : SubSeq(t, i, i + Len(sub) - 1) = sub

\* s.count(sub) for a sub that cannot overlap itself
Count(s, sub) ==
    With(s, LAMBDA t :
        Cardinality({i \in 1..(Len(t) - Len(sub) + 1) :
                        SubSeq(t, i, i + Len(sub) - 1) = sub}))

\* s[i:].startswith(w)
HasAt(s, i, w) == i + Len(w) - 1 <= Len(s) /\ SubSeq(s, i, i + Len(w) - 1) = w

StartsWith(s, p) == Len(s) >= Len(p) /\ SubSeq(s, 1, Len(p)) = p

EndsWith(s, p) == Len(s) >= Len(p) /\ SubSeq(s, Len(s) - Len(p) + 1, Len(s)) = p

UpperAlpha == "ABCDEFGHIJKLMNOPQRSTUVWXYZ"
LowerAlpha == "abcdefghijklmnopqrstuvwxyz"
Digits == "0123456789"

\* the letters of each case, and the other case of each
UpperLetters == {Char(UpperAlpha, i) : i \in 1..Len(UpperAlpha)}
LowerLetters == {Char(LowerAlpha, i) : i \in 1..Len(LowerAlpha)}

LowerOf ==
    [c \in UpperLetters |->
        Char(LowerAlpha, CHOOSE i \in 1..Len(UpperAlpha) : Char(UpperAlpha, i) = c)]

UpperOf ==
    [c \in LowerLetters |->
        Char(UpperAlpha, CHOOSE i \in 1..Len(LowerAlpha) : Char(LowerAlpha, i) = c)]

LowerChar(c) == IF c \in UpperLetters THEN LowerOf[c] ELSE c

UpperChar(c) == IF c \in LowerLetters THEN UpperOf[c] ELSE c

\* s.find(sub) + 1: the position of the first occurrence of sub in s, 0 if
\* there is none
Find(s, sub) ==
    With(s, LAMBDA t :
    With({i \in 1..(Len(t) - Len(sub) + 1) : SubSeq(t, i, i + Len(sub) - 1) = sub},
         LAMBDA hits :
             IF hits = {} THEN 0 ELSE CHOOSE i \in hits : \A j \in hits : i <= j))

\* str.lower()
RECURSIVE Lower(_)
Lower(s) ==
    With(s, LAMBDA t :
        IF Len(t) = 0 THEN ""
        ELSE IF Len(t) = 1 THEN LowerChar(t)
        ELSE LET h == Len(t) \div 2
             IN  Lower(SubSeq(t, 1, h)) \o Lower(SubSeq(t, h + 1, Len(t))))

\* str.upper()
RECURSIVE Upper(_)
Upper(s) ==
    With(s, LAMBDA t :
        IF Len(t) = 0 THEN ""
        ELSE IF Len(t) = 1 THEN UpperChar(t)
        ELSE LET h == Len(t) \div 2
             IN  Upper(SubSeq(t, 1, h)) \o Upper(SubSeq(t, h + 1, Len(t))))

\* the regular-expression class \s
IsSpace(c) == c \in {" ", "\t", "\n", "\r", "\f"}

\* the regular-expression class \w
IsWordChar(c) ==
    Len(c) = 1 /\ (Contains(UpperAlpha, c) \/ Contains(LowerAlpha, c)
                   \/ Contains(Digits, c) \/ c = "_")

\* length of the longest prefix of s made of whitespace
LeadingSpaces(s) ==
    With(s, LAMBDA t :
        CHOOSE n \in 0..Len(t) :
            /\ \A i \in 1..n : IsSpace(Char(t, i))
            /\ (n = Len(t) \/ ~IsSpace(Char(t, n + 1))))

\* length of the longest suffix of s made of whitespace
TrailingSpaces(s) ==
    With(s, LAMBDA t :
        CHOOSE n \in 0..Len(t) :
            /\ \A i \in (Len(t) - n + 1)..Len(t) : IsSpace(Char(t, i))
            /\ (n = Len(t) \/ ~IsSpace(Char(t, Len(t) - n))))

\* str(n) for an integer n
RECURSIVE NatToStr(_)
NatToStr(n) ==
    IF n < 10 THEN Char(Digits, n + 1)
    ELSE NatToStr(n \div 10) \o Char(Digits, (n % 10) + 1)

IntToStr(n) == IF n < 0 THEN "-" \o NatToStr(0 - n) ELSE NatToStr(n)

-----------------------------------------------------------------------------
(* app/utils/sanitizer.py *)

DISALLOWED ==
    << "insert", "update", "delete", "drop", "alter", "create",
       "truncate", "grant", "revoke", "copy", ";", "--" >>

\* sqlparse.parse(sql): the number of statements the library splits the text
\* into.  It is reached only for text without ';', which is one statement.
sqlparse_parse(s) == IF Len(s) = 0 THEN 0 ELSE 1

\* re.match(r'^\s*select\b', s, re.I)
re_match_select(s) ==
    \E t \in {s} :
        \E n \in {LeadingSpaces(t)} :
            /\ Len(t) >= n + 6
            /\ Lower(SubSeq(t, n + 1, n + 6)) = "select"
            /\ (Len(t) = n + 6 \/ ~IsWordChar(Char(t, n + 7)))

\* a faulty is_safe_select: the denylist is searched in the text as written
is_safe_select_cased(s) ==
    IF s = "" THEN FALSE
    ELSE IF \E k \in 1..Len(DISALLOWED) : Contains(s, DISALLOWED[k])
         THEN FALSE
         ELSE IF sqlparse_parse(s) = 0 THEN FALSE
         ELSE re_match_select(Lower(s))

is_safe_select(s) ==
    IF s = "" THEN FALSE
    ELSE \E sql_low \in {Lower(s)} :
             IF \E k \in 1..Len(DISALLOWED) : Contains(sql_low, DISALLOWED[k])
             THEN FALSE
             ELSE IF sqlparse_parse(s) = 0 THEN FALSE
             ELSE re_match_select(sql_low)

\* re.sub(r';\s*$', '', s): the leftmost ';' that only whitespace follows is
\* removed together with that whitespace
re_sub_trailing_semicolon(s) ==
    With(s, LAMBDA t :
    With(TrailingSpaces(t), LAMBDA n :
        IF Len(t) > n /\ Char(t, Len(t) - n) = ";"
        THEN SubSeq(t, 1, Len(t) - n - 1)
        ELSE t))

\* a faulty wrap_with_limit: the row limit is written into the statement
wrap_with_limit_interpolated(s, m) ==
    [ wrapped_sql |-> "SELECT * FROM (" \o re_sub_trailing_semicolon(s)
                          \o ") AS _sub LIMIT " \o IntToStr(m),
      params      |-> [_limit |-> m] ]

\* a faulty wrap_with_limit: the limit is appended to the candidate itself
wrap_with_limit_appended(s, m) ==
    [ wrapped_sql |-> re_sub_trailing_semicolon(s) \o " LIMIT :_limit",
      params      |-> [_limit |-> m] ]

wrap_with_limit(s, m) ==
    [ wrapped_sql |-> "SELECT * FROM (" \o re_sub_trailing_semicolon(s)
                          \o ") AS _sub LIMIT :_limit",
      params      |-> [_limit |-> m] ]

-----------------------------------------------------------------------------
(* app/llm/sql_generator.py *)

\* int(os.getenv("MAX_QUERY_ROWS", "1000")) with the variable unset
MAX_ROWS_DEFAULT == 1000

\* str.strip()
Strip(s) ==
    With(s, LAMBDA t :
    With(LeadingSpaces(t), LAMBDA a :
        IF a = Len(t) THEN "" ELSE SubSeq(t, a + 1, Len(t) - TrailingSpaces(t))))

\* str.rstrip(';')
RStripSemicolons(s) ==
    With(s, LAMBDA t :
        SubSeq(t, 1, Len(t) - (CHOOSE k \in 0..Len(t) :
                                  /\ \A i \in (Len(t) - k + 1)..Len(t) : Char(t, i) = ";"
                                  /\ (k = Len(t) \/ Char(t, Len(t) - k) # ";"))))

\* The character ` (U+0060) cannot be written in a TLA+ string: the model
\* writes it ~, a character no modelled text uses otherwise.
Backtick == "~"

\* the code-fence marker, three backticks
Fence == Backtick \o Backtick \o Backtick

\* re.sub(marker + r'\s*', '', s, flags=re.IGNORECASE) for a lower-case
\* literal marker: every non-overlapping occurrence, left to right, is
\* removed together with the whitespace that follows it
RECURSIVE re_sub_fence(_, _)
re_sub_fence(s, marker) ==
    With(s, LAMBDA t :
    With(Find(Lower(t), marker), LAMBDA p :
        IF p = 0 THEN t
        ELSE With(SubSeq(t, p + Len(marker), Len(t)), LAMBDA rest :
                 SubSeq(t, 1, p - 1)
                 \o re_sub_fence(SubSeq(rest, LeadingSpaces(rest) + 1, Len(rest)), marker))))

\* number of whitespace characters of s that start at position i
SpacesAt(s, i) == LeadingSpaces(SubSeq(s, i, Len(s)))

\* whether r'(SELECT\s+.+?(?=LIMIT|\Z))' (IGNORECASE, DOTALL) matches at p:
\* SELECT, whitespace, and at least one more character
select_span_at(s, p) ==
    /\ p + 5 <= Len(s)
    /\ Upper(SubSeq(s, p, p + 5)) = "SELECT"
    /\ \E k \in {SpacesAt(s, p + 6)} :
           k >= 1 /\ (p + 6 + k <= Len(s) \/ k >= 2)

\* the position after the last character of that match: the lazy .+? stops
\* before the first LIMIT that follows at least one character, or at the end
select_span_end(s, p) ==
    With(SpacesAt(s, p + 6), LAMBDA k :
        IF p + 6 + k > Len(s) THEN Len(s) + 1
        ELSE With(Find(Upper(SubSeq(s, p + 6 + k + 1, Len(s))), "LIMIT"), LAMBDA e :
                 IF e = 0 THEN Len(s) + 1 ELSE p + 6 + k + e))

\* re.search(r'GROUP\s+BY|COUNT\(|SUM\(|AVG\(', s, re.IGNORECASE)
re_search_aggregate(s) ==
    \E u \in {Upper(s)} :
        \/ Contains(u, "COUNT(")
        \/ Contains(u, "SUM(")
        \/ Contains(u, "AVG(")
        \/ \E i \in 1..Len(u) :
               /\ HasAt(u, i, "GROUP")
               /\ \E k \in {SpacesAt(u, i + 5)} :
                      k >= 1 /\ HasAt(u, i + 5 + k, "BY")

\* re.search(r'(SELECT\s+.+?(?=LIMIT|\Z))', s, re.IGNORECASE | re.DOTALL):
\* the text of the leftmost match stripped, "" when there is no match
select_statement(s) ==
    With({q \in 1..Len(s) : select_span_at(s, q)}, LAMBDA starts :
        IF starts = {} THEN ""
        ELSE With(CHOOSE q \in starts : \A r \in starts : q <= r, LAMBDA p :
                 Strip(SubSeq(s, p, select_span_end(s, p) - 1))))

clean_sql(s) ==
    IF s = "" THEN ""
    ELSE With(re_sub_fence(re_sub_fence(s, Fence \o "sql"), Fence), LAMBDA unfenced :
         With(RStripSemicolons(Strip(unfenced)), LAMBDA trimmed :
         With(IF re_match_select(trimmed) THEN trimmed ELSE select_statement(trimmed),
              LAMBDA select :
                  IF ~Contains(Upper(select), "LIMIT") /\ ~re_search_aggregate(select)
                  THEN select \o " LIMIT " \o IntToStr(MAX_ROWS_DEFAULT)
                  ELSE select)))

requires_joins(question) ==
    LET question_lower == Lower(question)
        multi_table_keywords ==
            << <<"customer", {"order", "product", "buy", "purchase", "history", "spent"}>>,
               <<"product", {"customer", "who bought", "ordered by", "purchased by", "bought by"}>>,
               <<"order", {"customer", "product", "item", "detail", "with"}>>,
               <<"together", {}>>,
               <<"along with", {}>>,
               <<"including", {}>>,
               <<"show", {"customer", "product", "order"}>>,
               <<"list", {"customer", "product", "order"}>> >>
    IN  \E low \in {question_lower} :
        \E n \in 1..Len(multi_table_keywords) :
            /\ Contains(low, multi_table_keywords[n][1])
            /\ \/ multi_table_keywords[n][2] = {}
               \/ \E secondary \in multi_table_keywords[n][2] :
                      Contains(low, secondary)

\* str.replace(old, new): every non-overlapping occurrence, left to right
RECURSIVE Replace(_, _, _)
Replace(s, old, new) ==
    With(s, LAMBDA t :
    With(Find(t, old), LAMBDA p :
        IF p = 0 THEN t
        ELSE SubSeq(t, 1, p - 1) \o new
             \o Replace(SubSeq(t, p + Len(old), Len(t)), old, new)))

attempt_join_fix(s, question) ==
    With(Lower(question), LAMBDA question_lower :
        IF Contains(question_lower, "customer") /\ Contains(question_lower, "order")
        THEN IF Contains(s, "FROM customers") /\ ~Contains(s, "orders")
             THEN Replace(s, "FROM customers",
                          "FROM customers c\nJOIN orders o ON c.customer_id = o.customer_id")
             ELSE s
        ELSE IF /\ Contains(question_lower, "product")
                /\ (Contains(question_lower, "customer") \/ Contains(question_lower, "who"))
             THEN IF Contains(s, "FROM products") /\ ~Contains(s, "customers")
                  THEN Replace(s, "FROM products",
                               "FROM products p\nJOIN order_items oi ON p.product_id = oi.product_id\n"
                               \o "JOIN orders o ON oi.order_id = o.order_id\n"
                               \o "JOIN customers c ON o.customer_id = c.customer_id")
                  ELSE s
             ELSE s)

(* The statements generate_local_sql returns *)

\* sql_generator.py lines 375-385
SqlCustomerSpending ==
    "\n"
    \o "                SELECT c.customer_id, c.name, c.country, \n"
    \o "                       SUM(o.total_amount) as total_spent,\n"
    \o "                       COUNT(o.order_id) as order_count\n"
    \o "                FROM customers c\n"
    \o "                JOIN orders o ON c.customer_id = o.customer_id\n"
    \o "                WHERE o.status = 'completed'\n"
    \o "                GROUP BY c.customer_id, c.name, c.country\n"
    \o "                ORDER BY total_spent DESC\n"
    \o "                LIMIT "
    \o IntToStr(MAX_ROWS_DEFAULT)
    \o "\n"
    \o "                "

\* sql_generator.py lines 387-392
SqlCustomerList ==
    "\n"
    \o "                SELECT c.customer_id, c.name, c.email, c.country, c.registration_date\n"
    \o "                FROM customers c\n"
    \o "                ORDER BY c.registration_date DESC\n"
    \o "                LIMIT "
    \o IntToStr(MAX_ROWS_DEFAULT)
    \o "\n"
    \o "                "

\* sql_generator.py lines 398-409
SqlProductSales ==
    "\n"
    \o "                SELECT p.product_id, p.name, p.category, \n"
    \o "                       SUM(oi.quantity) as total_quantity,\n"
    \o "                       SUM(oi.quantity * oi.unit_price) as total_revenue\n"
    \o "                FROM products p\n"
    \o "                JOIN order_items oi ON p.product_id = oi.product_id\n"
    \o "                JOIN orders o ON oi.order_id = o.order_id\n"
    \o "                WHERE o.status = 'completed'\n"
    \o "                GROUP BY p.product_id, p.name, p.category\n"
    \o "                ORDER BY total_revenue DESC\n"
    \o "                LIMIT "
    \o IntToStr(MAX_ROWS_DEFAULT)
    \o "\n"
    \o "                "

\* sql_generator.py lines 411-416
SqlProductList ==
    "\n"
    \o "                SELECT p.product_id, p.name, p.category, p.unit_price, p.supplier\n"
    \o "                FROM products p\n"
    \o "                ORDER BY p.name\n"
    \o "                LIMIT "
    \o IntToStr(MAX_ROWS_DEFAULT)
    \o "\n"
    \o "                "

\* sql_generator.py lines 421-431
SqlOrderList ==
    "\n"
    \o "            SELECT o.order_id, c.name as customer_name, c.country,\n"
    \o "                   o.order_date, o.total_amount, o.status,\n"
    \o "                   COUNT(oi.order_item_id) as item_count\n"
    \o "            FROM orders o\n"
    \o "            JOIN customers c ON o.customer_id = c.customer_id\n"
    \o "            LEFT JOIN order_items oi ON o.order_id = oi.order_id\n"
    \o "            GROUP BY o.order_id, c.name, c.country, o.order_date, o.total_amount, o.status\n"
    \o "            ORDER BY o.order_date DESC\n"
    \o "            LIMIT "
    \o IntToStr(MAX_ROWS_DEFAULT)
    \o "\n"
    \o "            "

\* sql_generator.py lines 437-447
SqlMonthlyRevenue ==
    "\n"
    \o "                SELECT DATE_TRUNC('month', o.order_date) as month,\n"
    \o "                       SUM(o.total_amount) as monthly_revenue,\n"
    \o "                       COUNT(DISTINCT o.customer_id) as unique_customers,\n"
    \o "                       COUNT(o.order_id) as order_count\n"
    \o "                FROM orders o\n"
    \o "                WHERE o.status = 'completed'\n"
    \o "                GROUP BY month\n"
    \o "                ORDER BY month DESC\n"
    \o "                LIMIT "
    \o IntToStr(MAX_ROWS_DEFAULT)
    \o "\n"
    \o "                "

\* sql_generator.py lines 449-459
SqlRevenueByCountry ==
    "\n"
    \o "                SELECT c.country,\n"
    \o "                       SUM(o.total_amount) as total_revenue,\n"
    \o "                       COUNT(DISTINCT o.customer_id) as customer_count\n"
    \o "                FROM orders o\n"
    \o "                JOIN customers c ON o.customer_id = c.customer_id\n"
    \o "                WHERE o.status = 'completed'\n"
    \o "                GROUP BY c.country\n"
    \o "                ORDER BY total_revenue DESC\n"
    \o "                LIMIT "
    \o IntToStr(MAX_ROWS_DEFAULT)
    \o "\n"
    \o "                "

\* sql_generator.py lines 461-468
SqlRevenueSummary ==
    "\n"
    \o "                SELECT SUM(o.total_amount) as total_revenue,\n"
    \o "                       COUNT(DISTINCT o.customer_id) as total_customers,\n"
    \o "                       AVG(o.total_amount) as avg_order_value\n"
    \o "                FROM orders o\n"
    \o "                WHERE o.status = 'completed'\n"
    \o "                LIMIT "
    \o IntToStr(MAX_ROWS_DEFAULT)
    \o "\n"
    \o "                "

\* sql_generator.py lines 473-484
SqlOrderItemDetail ==
    "\n"
    \o "            SELECT oi.order_item_id, oi.order_id, p.name as product_name,\n"
    \o "                   oi.quantity, oi.unit_price, \n"
    \o "                   (oi.quantity * oi.unit_price) as item_total,\n"
    \o "                   c.name as customer_name\n"
    \o "            FROM order_items oi\n"
    \o "            JOIN orders o ON oi.order_id = o.order_id\n"
    \o "            JOIN products p ON oi.product_id = p.product_id\n"
    \o "            JOIN customers c ON o.customer_id = c.customer_id\n"
    \o "            ORDER BY oi.order_item_id DESC\n"
    \o "            LIMIT "
    \o IntToStr(MAX_ROWS_DEFAULT)
    \o "\n"
    \o "            "

\* sql_generator.py lines 488-495
SqlRecentOrders ==
    "\n"
    \o "        SELECT o.order_id, c.customer_id, c.name as customer_name, \n"
    \o "               o.order_date, o.total_amount, o.status\n"
    \o "        FROM orders o\n"
    \o "        JOIN customers c ON o.customer_id = c.customer_id\n"
    \o "        ORDER BY o.order_date DESC\n"
    \o "        LIMIT "
    \o IntToStr(MAX_ROWS_DEFAULT)
    \o "\n"
    \o "        "

\* a faulty metadata statement: it ends with a statement terminator
SqlMetadata_terminated ==
    "SELECT * FROM information_schema.tables WHERE table_schema = 'public';"

\* sql_generator.py lines 498-498
SqlMetadata ==
    "SELECT * FROM information_schema.tables WHERE table_schema = 'public'"


\* schema_summary.get("tables", {}): the table names of a schema description
\* [has_tables |-> whether the key "tables" is present, tables |-> its keys]
\* a faulty lookup: a description without the key "tables" is taken to
\* describe the whole e-commerce schema
schema_tables_assumed(schema_summary) ==
    IF schema_summary.has_tables THEN schema_summary.tables
    ELSE {"customers", "orders", "products", "order_items"}

\* schema_summary.get("tables", {})
schema_tables(schema_summary) ==
    IF schema_summary.has_tables THEN schema_summary.tables ELSE {}

generate_local_sql(user_question, schema_summary) ==
    With(Lower(user_question), LAMBDA question :
    LET tables   == schema_tables(schema_summary)
        any(words) == \E word \in words : Contains(question, word)
        recent_orders ==
            IF "orders" \in tables /\ "customers" \in tables
            THEN SqlRecentOrders
            ELSE SqlMetadata
    IN  IF any({"customer", "client", "buyer"})
        THEN IF "customers" \in tables /\ "orders" \in tables
             THEN IF any({"spent", "spending", "total"})
                  THEN SqlCustomerSpending
                  ELSE SqlCustomerList
             ELSE recent_orders
        ELSE IF any({"product", "item", "stock"})
        THEN IF "products" \in tables
             THEN IF any({"sold", "sales", "popular"})
                  THEN SqlProductSales
                  ELSE SqlProductList
             ELSE recent_orders
        ELSE IF any({"order", "purchase", "transaction"})
        THEN IF "orders" \in tables /\ "customers" \in tables
             THEN SqlOrderList
             ELSE recent_orders
        ELSE IF any({"revenue", "sales", "income", "profit"})
        THEN IF "orders" \in tables
             THEN IF any({"month", "monthly"}) THEN SqlMonthlyRevenue
                  ELSE IF any({"country"}) THEN SqlRevenueByCountry
                  ELSE SqlRevenueSummary
             ELSE recent_orders
        ELSE IF any({"detail", "item", "line item", "what bought"})
        THEN IF "order_items" \in tables /\ "orders" \in tables /\ "products" \in tables
             THEN SqlOrderItemDetail
             ELSE recent_orders
        ELSE recent_orders)

\* The try block of generate_sql.  o is what call_groq_chat did:
\* [raised, reply]; fault names the call of the block in which an exception
\* is raised: "none", "clean_sql" or "attempt_join_fix".  The result is
\* [raised, value, calls]: calls lists the calls made after the backend call
generate_sql_try(user_question, detailed, o, fault) ==
    IF o.raised THEN [raised |-> TRUE, value |-> "", calls |-> << >>]
    ELSE IF o.reply = "" \/ ~Contains(Upper(o.reply), "SELECT")
         THEN [raised |-> FALSE, value |-> generate_local_sql(user_question, detailed),
               calls |-> <<"generate_local_sql">>]
         ELSE IF fault = "clean_sql"
              THEN [raised |-> TRUE, value |-> "", calls |-> <<"clean_sql">>]
         ELSE With(clean_sql(o.reply), LAMBDA cleaned :
                  IF requires_joins(user_question) /\ ~Contains(Upper(cleaned), "JOIN")
                  THEN IF fault = "attempt_join_fix"
                       THEN [raised |-> TRUE, value |-> "",
                             calls |-> <<"clean_sql", "attempt_join_fix">>]
                       ELSE [raised |-> FALSE,
                             value  |-> attempt_join_fix(cleaned, user_question),
                             calls  |-> <<"clean_sql", "attempt_join_fix">>]
                  ELSE [raised |-> FALSE, value |-> cleaned, calls |-> <<"clean_sql">>])

\* a faulty generate_sql: a failure in the try block is answered with a
\* second call of the backend before the fallback
generate_sql_reply_retried(user_question, detailed, o, fault) ==
    With(generate_sql_try(user_question, detailed, o, fault), LAMBDA body :
        IF body.raised
        THEN [raised |-> FALSE, value |-> generate_local_sql(user_question, detailed),
              calls |-> body.calls \o <<"call_groq_chat", "generate_local_sql">>]
        ELSE body)

\* a faulty generate_sql: the try block without its except clause
generate_sql_reply_uncaught(user_question, detailed, o, fault) ==
    generate_sql_try(user_question, detailed, o, fault)

\* generate_sql from the backend call on: the try block and its except clause
generate_sql_reply(user_question, detailed, o, fault) ==
    With(generate_sql_try(user_question, detailed, o, fault), LAMBDA body :
        IF body.raised
        THEN [raised |-> FALSE, value |-> generate_local_sql(user_question, detailed),
              calls |-> Append(body.calls, "generate_local_sql")]
        ELSE body)

-----------------------------------------------------------------------------
(* app/llm/answer_formatter.py *)

(* A Row Set is a sequence of rows; a row is a sequence of cells in column  *)
(* order; a cell is [name, kind, int, str] with kind "int", "str" or "null" *)
(* (a Python int, str or None).                                             *)

Cell(name, kind, int, str) == [name |-> name, kind |-> kind, int |-> int, str |-> str]

IntCell(name, n) == Cell(name, "int", n, "")
StrCell(name, t) == Cell(name, "str", 0, t)
NullCell(name)   == Cell(name, "null", 0, "")

\* list(row.keys())
Columns(row) == [i \in 1..Len(row) |-> row[i].name]

\* whether row has the key col
HasKey(row, col) == \E i \in 1..Len(row) : row[i].name = col

\* row[col]
Get(row, col) == row[CHOOSE i \in 1..Len(row) : row[i].name = col]

\* str(v) of a cell value
ValueToStr(c) ==
    IF c.kind = "int" THEN IntToStr(c.int)
    ELSE IF c.kind = "str" THEN c.str
    ELSE "None"

IsDigitString(t) == Len(t) > 0 /\ \A i \in 1..Len(t) : Contains(Digits, Char(t, i))

RECURSIVE DigitsToNat(_)
DigitsToNat(t) ==
    IF Len(t) = 0 THEN 0
    ELSE 10 * DigitsToNat(SubSeq(t, 1, Len(t) - 1))
         + ((CHOOSE i \in 1..10 : Char(Digits, i) = Char(t, Len(t))) - 1)

\* float(r.get(col, 0) or 0): [raised, value]; a missing key, None, 0 and ""
\* give 0, text that is no number raises ValueError
FloatOrZero(row, col) ==
    IF ~HasKey(row, col) THEN [raised |-> FALSE, value |-> 0]
    ELSE LET c == Get(row, col)
         IN  IF c.kind = "int" THEN [raised |-> FALSE, value |-> c.int]
             ELSE IF c.kind = "null" \/ c.str = "" THEN [raised |-> FALSE, value |-> 0]
             ELSE IF IsDigitString(Strip(c.str))
                  THEN [raised |-> FALSE, value |-> DigitsToNat(Strip(c.str))]
                  ELSE [raised |-> TRUE, value |-> 0]

RECURSIVE SumUpTo(_, _, _)
SumUpTo(rs, col, n) ==
    IF n = 0 THEN 0 ELSE SumUpTo(rs, col, n - 1) + FloatOrZero(rs[n], col).value

\* sum(float(r.get(col, 0) or 0) for r in rows): [raised, value]
SumColumn(rs, col) ==
    [ raised |-> \E n \in 1..Len(rs) : FloatOrZero(rs[n], col).raised,
      value  |-> SumUpTo(rs, col, Len(rs)) ]

\* the digits of n in groups of three separated by ','
RECURSIVE GroupDigits(_)
GroupDigits(n) ==
    IF n < 1000 THEN NatToStr(n)
    ELSE LET low == n % 1000
         IN  GroupDigits(n \div 1000) \o ","
             \o (IF low < 10 THEN "00" ELSE IF low < 100 THEN "0" ELSE "")
             \o NatToStr(low)

\* f"{x:,.0f}" for a float x holding an integer
FormatGrouped(n) == IF n < 0 THEN "-" \o GroupDigits(0 - n) ELSE GroupDigits(n)

\* f"{x:,.2f}" for a float x holding an integer
FormatGrouped2(n) == FormatGrouped(n) \o ".00"

\* next((c for c in columns if <c.lower() contains one of words>), default)
FirstColumnWith(columns, words) ==
    LET hit(i) == \E w \in words : Contains(Lower(columns[i]), w)
    IN  IF \E i \in 1..Len(columns) : hit(i)
        THEN [found |-> TRUE,
              col   |-> columns[CHOOSE i \in 1..Len(columns) :
                                    hit(i) /\ \A j \in 1..(i - 1) : ~hit(j)]]
        ELSE [found |-> FALSE, col |-> ""]

\* a faulty detect_query_type: the category depends on the configuration of
\* the process
detect_query_type_configured(sql_text, question) ==
    IF USE_LOCAL_FALLBACK THEN "general"
    ELSE IF Contains(Upper(sql_text), "JOIN") THEN "multi_table_general"
    ELSE IF Contains(Upper(sql_text), "SUM") THEN "aggregate"
    ELSE "general"

\* a faulty detect_query_type: the aggregate keywords are tested before the
\* entity keywords
detect_query_type_aggregate_first(sql_text, question) ==
    With(Upper(sql_text), LAMBDA sql_upper :
    LET has(w) == Contains(sql_upper, w)
    IN  IF has("JOIN")
        THEN IF has("CUSTOMER") /\ has("PRODUCT") THEN "customer_product_relationship"
             ELSE IF has("CUSTOMER") /\ has("ORDER")
                  THEN IF has("REVENUE") \/ has("SUM") THEN "customer_revenue"
                       ELSE "customer_orders"
             ELSE IF has("PRODUCT") /\ (has("SUM") \/ has("COUNT")) THEN "product_sales"
             ELSE IF has("DATE_TRUNC") \/ has("MONTH") \/ has("YEAR") THEN "time_series"
             ELSE "multi_table_general"
        ELSE IF has("REVENUE") \/ has("SUM") \/ has("TOTAL") THEN "aggregate"
        ELSE IF has("CUSTOMER") THEN "customer_list"
        ELSE IF has("PRODUCT") THEN "product_list"
        ELSE IF has("ORDER")
             THEN IF has("ITEM") THEN "order_details" ELSE "order_list"
        ELSE "general")

detect_query_type(sql_text, question) ==
    With(Upper(sql_text), LAMBDA sql_upper :
    LET has(w) == Contains(sql_upper, w)
    IN  IF has("JOIN")
        THEN IF has("CUSTOMER") /\ has("PRODUCT") THEN "customer_product_relationship"
             ELSE IF has("CUSTOMER") /\ has("ORDER")
                  THEN IF has("REVENUE") \/ has("SUM") THEN "customer_revenue"
                       ELSE "customer_orders"
             ELSE IF has("PRODUCT") /\ (has("SUM") \/ has("COUNT")) THEN "product_sales"
             ELSE IF has("DATE_TRUNC") \/ has("MONTH") \/ has("YEAR") THEN "time_series"
             ELSE "multi_table_general"
        ELSE IF has("CUSTOMER") THEN "customer_list"
        ELSE IF has("PRODUCT") THEN "product_list"
        ELSE IF has("ORDER")
             THEN IF has("ITEM") THEN "order_details" ELSE "order_list"
        ELSE IF has("REVENUE") \/ has("SUM") \/ has("TOTAL") THEN "aggregate"
        ELSE "general")

\* the printable ASCII characters in code-point order, the stand-in of the
\* backtick left out
Ascii ==
    " !\"#$%&'()*+,-./0123456789:;<=>?@ABCDEFGHIJKLMNOPQRSTUVWXYZ[\\]^_abcdefghijklmnopqrstuvwxyz{|}"

\* position of the character c in the code-point order
Code(c) == With(Find(Ascii, c), LAMBDA p : IF p = 0 THEN Len(Ascii) + 1 ELSE p)

\* a < b for Python str: the first differing character decides, a proper
\* prefix is smaller
StrLess(a, b) ==
    With({i \in 1..(IF Len(a) < Len(b) THEN Len(a) ELSE Len(b)) : Char(a, i) # Char(b, i)},
         LAMBDA diffs :
             IF diffs = {} THEN Len(a) < Len(b)
             ELSE With(CHOOSE i \in diffs : \A j \in diffs : i <= j, LAMBDA i :
                      Code(Char(a, i)) < Code(Char(b, i))))

\* str(x.get(col, "")) of a row x
KeyText(row, col) == IF HasKey(row, col) THEN ValueToStr(Get(row, col)) ELSE ""

\* f"{x:.1f}" for x = 100 * num / den with natural num and positive den, the
\* tenth rounded to nearest and a tie to the even tenth
FormatPercent(num, den) ==
    With((1000 * num) \div den, LAMBDA low :
    With((1000 * num) % den, LAMBDA rest :
    With(IF 2 * rest > den \/ (2 * rest = den /\ low % 2 = 1) THEN low + 1 ELSE low,
         LAMBDA tenths :
             NatToStr(tenths \div 10) \o "." \o NatToStr(tenths % 10))))

\* a faulty context: has_data is set without looking at the Row Set
BaseContext_with_data(rs) ==
    [has_data |-> TRUE, row_count |-> Len(rs), key_metrics |-> << >>,
     trends |-> << >>, insights |-> << >>, has_columns |-> FALSE, columns |-> << >>]

\* the context of prepare_business_context before any extraction; the key
\* "columns" is set for a non-empty Row Set only
BaseContext(rs) ==
    [has_data |-> Len(rs) > 0, row_count |-> Len(rs), key_metrics |-> << >>,
     trends |-> << >>, insights |-> << >>, has_columns |-> FALSE, columns |-> << >>]

\* key metrics: the first two columns with a metric keyword in the name and a
\* number in the first row, each with its total; a total that cannot be
\* computed is left out
KeyMetrics(rs) ==
    LET sample_row == rs[1]
        keywords == {"total", "sum", "count", "revenue", "amount", "value",
                     "quantity", "avg", "average"}
        is_metric(c) == /\ \E k \in keywords : Contains(Lower(c.name), k)
                        /\ c.kind = "int"
        numeric_cols == SelectSeq(sample_row, is_metric)
        top == SubSeq(numeric_cols, 1, IF Len(numeric_cols) < 2 THEN Len(numeric_cols) ELSE 2)
        summed == [i \in 1..Len(top) |->
                      [name |-> top[i].name, total |-> SumColumn(rs, top[i].name)]]
        kept(m) == ~m.total.raised
    IN  [i \in 1..Len(SelectSeq(summed, kept)) |->
            [name  |-> SelectSeq(summed, kept)[i].name,
             total |-> SelectSeq(summed, kept)[i].total.value]]

\* the trend of a time series: [raised, trends]
Trends(rs) ==
    LET sample_row == rs[1]
        n == Len(sample_row)
        date_like(i) == \E k \in {"date", "month", "year", "time", "period"} :
                           Contains(Lower(sample_row[i].name), k)
        value_like(i) == ~date_like(i) /\ sample_row[i].kind = "int"
        dates  == {i \in 1..n : date_like(i)}
        values == {i \in 1..n : value_like(i)}
        none == [raised |-> FALSE, trends |-> << >>]
    IN  IF dates = {} \/ values = {} \/ Len(rs) < 2 THEN none
        ELSE LET \* each assignment of the loop replaces the one before
                 date_col  == sample_row[CHOOSE i \in dates : \A j \in dates : j <= i].name
                 value_col == sample_row[CHOOSE i \in values : \A j \in values : j <= i].name
                 key(i) == KeyText(rs[i], date_col)
                 \* sorted() is stable: the first row is the earliest of the
                 \* smallest key, the last row the latest of the largest key
                 lo == CHOOSE i \in 1..Len(rs) :
                          \A j \in 1..Len(rs) :
                              ~StrLess(key(j), key(i)) /\ (key(j) = key(i) => i <= j)
                 hi == CHOOSE i \in 1..Len(rs) :
                          \A j \in 1..Len(rs) :
                              ~StrLess(key(i), key(j)) /\ (key(j) = key(i) => j <= i)
                 first_val == FloatOrZero(rs[lo], value_col)
                 last_val  == FloatOrZero(rs[hi], value_col)
                 abs(x) == IF x < 0 THEN 0 - x ELSE x
             IN  IF date_col = "" \/ value_col = "" THEN none
                 ELSE IF first_val.raised \/ last_val.raised
                 THEN [raised |-> TRUE, trends |-> << >>]
                 ELSE IF first_val.value = 0 \/ last_val.value = 0
                         \/ first_val.value = last_val.value
                 THEN none
                 ELSE LET d == last_val.value - first_val.value
                          up == (d > 0) = (first_val.value > 0)
                      IN  [raised |-> FALSE,
                           trends |-> << "Overall trend: "
                                         \o (IF up THEN "increased" ELSE "decreased")
                                         \o " by " \o FormatPercent(abs(d), abs(first_val.value))
                                         \o "%" >>]

\* the most common value of the first short text column among the first 20
\* rows
Insights(rs) ==
    LET sample_row == rs[1]
        categorical(c) == c.kind = "str" /\ Len(c.str) < 50
        categorical_cols == SelectSeq(sample_row, categorical)
    IN  IF Len(categorical_cols) = 0 THEN << >>
        ELSE LET col == categorical_cols[1].name
                 m == IF Len(rs) < 20 THEN Len(rs) ELSE 20
                 truthy(i) == /\ HasKey(rs[i], col)
                              /\ LET c == Get(rs[i], col)
                                 IN  \/ c.kind = "int" /\ c.int # 0
                                     \/ c.kind = "str" /\ c.str # ""
                 counted == {i \in 1..m : truthy(i)}
                 val(i) == Get(rs[i], col)
                 same(i, j) == val(i).kind = val(j).kind /\ val(i).int = val(j).int
                               /\ val(i).str = val(j).str
                 count(i) == Cardinality({j \in counted : same(i, j)})
                 \* the first occurrence of each value, in insertion order
                 firsts == {i \in counted : \A j \in counted : same(i, j) => i <= j}
             IN  IF counted = {} THEN << >>
                 ELSE LET best == CHOOSE i \in firsts :
                                     \A j \in firsts :
                                         count(j) < count(i) \/ (count(j) = count(i) /\ i <= j)
                      IN  << "Most common " \o col \o ": " \o ValueToStr(val(best))
                             \o " (" \o IntToStr(count(best)) \o " occurrences)" >>

prepare_business_context(type, rs) ==
    IF Len(rs) = 0 THEN BaseContext(rs)
    ELSE With([BaseContext(rs) EXCEPT !.has_columns = TRUE, !.columns = Columns(rs[1])],
              LAMBDA context :
                  IF type \in {"customer_revenue", "aggregate", "product_sales"}
                  THEN [context EXCEPT !.key_metrics = KeyMetrics(rs)]
                  ELSE IF type = "time_series"
                  THEN [context EXCEPT !.trends = Trends(rs).trends]
                  ELSE IF type \in {"customer_product_relationship", "multi_table_general"}
                  THEN [context EXCEPT !.insights = Insights(rs)]
                  ELSE context)

\* The body of the try block of generate_local_answer for a non-empty Row
\* Set: [raised, value], raised when an exception reaches the except clause
local_answer_body(sql_text, rs) ==
    With(Upper(sql_text), LAMBDA sql_upper :
    LET row_count  == Len(rs)
        n          == IntToStr(row_count)
        sample_row == rs[1]
        columns    == Columns(sample_row)
        has(w)     == Contains(sql_upper, w)
        ok(t)      == [raised |-> FALSE, value |-> t]
        failed     == [raised |-> TRUE, value |-> ""]
        \* the statements after the JOIN block
        single ==
            IF has("CUSTOMER")
            THEN ok("Customer database contains " \o n \o " customer records with details including contact information and geographic data.")
            ELSE IF has("PRODUCT")
            THEN ok("Product catalog includes " \o n \o " products with pricing, category, and supplier information for inventory management.")
            ELSE IF has("ORDER")
            THEN IF has("ITEM")
                 THEN ok("Order details show " \o n \o " line items with product quantities, prices, and extended totals for precise order tracking.")
                 ELSE ok("Order system contains " \o n \o " orders with customer references, dates, amounts, and status information.")
            ELSE LET numeric(i) == sample_row[i].kind = "int"
                     general ==
                         IF row_count = 1 /\ Len(columns) = 1
                         THEN ok("The result is " \o ValueToStr(sample_row[1]) \o ".")
                         ELSE ok("Query returned " \o n \o " records with " \o IntToStr(Len(columns))
                                 \o " data points. This provides insights into the requested business information.")
                 IN  IF (has("REVENUE") \/ has("SUM") \/ has("TOTAL"))
                        /\ \E i \in 1..Len(columns) : numeric(i)
                     THEN LET i == CHOOSE k \in 1..Len(columns) :
                                       numeric(k) /\ \A j \in 1..(k - 1) : ~numeric(j)
                              total == SumColumn(rs, columns[i])
                          IN  IF total.raised THEN failed
                              ELSE ok("Analysis shows total of " \o FormatGrouped2(total.value) \o " across " \o n
                                      \o " records. This provides a high-level summary of business performance.")
                     ELSE general
    IN  IF has("JOIN")
        THEN IF has("CUSTOMER") /\ has("PRODUCT")
             THEN IF Len(columns) = 0 THEN failed
                  ELSE LET c == FirstColumnWith(columns, {"customer", "name"})
                           p == FirstColumnWith(columns, {"product", "item"})
                           cust_col == IF c.found THEN c.col ELSE columns[1]
                           prod_col == IF p.found THEN p.col
                                       ELSE IF Len(columns) > 1 THEN columns[2] ELSE columns[1]
                       IN  ok("Found " \o n \o " customer-product relationships. For example, "
                              \o ValueToStr(Get(sample_row, cust_col)) \o " purchased "
                              \o ValueToStr(Get(sample_row, prod_col))
                              \o ". This shows direct purchasing patterns between customers and products.")
             ELSE IF has("CUSTOMER") /\ has("ORDER")
             THEN IF has("SUM") \/ has("TOTAL")
                  THEN IF Len(columns) = 0 THEN failed
                       ELSE LET a == FirstColumnWith(columns, {"total", "amount", "revenue"})
                                amount_col == IF a.found THEN a.col ELSE columns[Len(columns)]
                                total_amount == SumColumn(rs, amount_col)
                            IN  IF total_amount.raised THEN failed
                                ELSE ok("Customer order analysis shows " \o n
                                        \o " customer records with total value of $"
                                        \o FormatGrouped2(total_amount.value)
                                        \o ". The data reveals customer spending patterns across the business.")
                  ELSE ok("Found " \o n \o " customer orders in the system. Each order represents a purchase transaction with associated customer details and order information.")
             ELSE IF has("PRODUCT") /\ (has("SUM") \/ has("COUNT"))
             THEN LET q == FirstColumnWith(columns, {"quantity", "count"})
                  IN  IF q.found
                      THEN LET total_qty == SumColumn(rs, q.col)
                           IN  IF total_qty.raised THEN failed
                               ELSE ok("Product sales analysis shows " \o n
                                       \o " product records with total quantity sold of "
                                       \o FormatGrouped(total_qty.value)
                                       \o " units. This indicates product performance and demand trends.")
                      ELSE single
             ELSE single
        ELSE single)

generate_local_answer(user_question, sql_text, rs) ==
    IF Len(rs) = 0 THEN "No matching records found for your query."
    ELSE With(local_answer_body(sql_text, rs), LAMBDA body :
             IF body.raised
             THEN "Your query returned " \o IntToStr(Len(rs))
                  \o " records. Review the data for specific business insights."
             ELSE body.value)

\* re.sub(r'(?i)(sql|query|select|from|where).*$', '', a) on stripped text:
\* '.' stops at a line break and '$' needs the end of the text, so the cut
\* starts at the leftmost token of the last line
re_sub_sql_reference(a) ==
    With(a, LAMBDA text :
    With(Lower(text), LAMBDA low :
    With({p \in 1..Len(text) :
             /\ \E t \in {"sql", "query", "select", "from", "where"} : HasAt(low, p, t)
             /\ ~Contains(SubSeq(text, p, Len(text)), "\n")},
         LAMBDA hits :
             IF hits = {} THEN text
             ELSE SubSeq(text, 1, (CHOOSE p \in hits : \A q \in hits : p <= q) - 1))))

\* The try block of format_answer.  o is what call_groq_chat did:
\* [kind |-> "raise" | "text" | "nontext", text]
format_answer_try(user_question, sql_text, rs, o) ==
    IF o.kind = "raise" THEN [raised |-> TRUE, value |-> "", calls |-> << >>]
    ELSE IF o.kind = "text" /\ o.text # "" /\ Strip(o.text) # ""
         THEN [raised |-> FALSE, value |-> re_sub_sql_reference(Strip(o.text)),
               calls |-> << >>]
         ELSE [raised |-> FALSE, value |-> generate_local_answer(user_question, sql_text, rs),
               calls |-> <<"generate_local_answer">>]

\* a faulty format_answer: the try block without its except clause
format_answer_reply_uncaught(user_question, sql_text, rs, o) ==
    format_answer_try(user_question, sql_text, rs, o)

\* format_answer from the backend call on: the try block and its except clause
format_answer_reply(user_question, sql_text, rs, o) ==
    With(format_answer_try(user_question, sql_text, rs, o), LAMBDA body :
        IF body.raised
        THEN [raised |-> FALSE, value |-> generate_local_answer(user_question, sql_text, rs),
              calls |-> Append(body.calls, "generate_local_answer")]
        ELSE body)

-----------------------------------------------------------------------------
(* app/routes/query.py: run_query, one request after another *)

TableNames == {"customers", "orders", "products", "order_items"}

\* the databases the service is run against
Databases == { {}, TableNames }

\* QueryRequest.userQuery
UserQueries == { "", "  ", "customer order history", "monthly revenue" }

\* QueryRequest.maxRows: Optional[int], None is [given |-> FALSE]
MaxRowsInputs ==
    { [given |-> FALSE, value |-> 0], [given |-> TRUE, value |-> 0],
      [given |-> TRUE, value |-> 50], [given |-> TRUE, value |-> -5] }

\* what call_groq_chat does for generate_sql: it raises or returns text
SqlReplies ==
    { "",
      "I cannot answer that.",
      "No selection possible.",
      "SELECT * FROM customers",
      Fence \o "sql\nSELECT c.name FROM customers c;\n" \o Fence,
      "SELECT COUNT(*) FROM orders",
      "SELECT * FROM products",
      "Sure: SELECT * FROM orders LIMIT 5",
      "SELECT * FROM orders; DELETE FROM orders",
      "SELECT p.name, SUM(oi.quantity) AS quantity FROM products p JOIN order_items oi ON p.product_id = oi.product_id GROUP BY p.name" }

SqlBackendOutcomes ==
    {[raised |-> TRUE, reply |-> ""]} \cup {[raised |-> FALSE, reply |-> r] : r \in SqlReplies}

\* the call of the try block of generate_sql in which an exception is raised
Faults == {"none", "clean_sql", "attempt_join_fix"}

\* what the database returns for a statement it accepts
RowSets ==
    { << >>,
      << <<IntCell("total_revenue", 1234567)>> >>,
      << <<StrCell("customer_name", "Ann"), IntCell("total_spent", 1500)>>,
         <<StrCell("customer_name", "Bob"), IntCell("total_spent", 250)>> >> }

ExecOutcomes ==
    {[failed |-> TRUE, rows |-> << >>]} \cup {[failed |-> FALSE, rows |-> r] : r \in RowSets}

\* what call_groq_chat does for format_answer
AnswerOutcomes ==
    { [kind |-> "raise", text |-> ""],
      [kind |-> "nontext", text |-> ""],
      [kind |-> "text", text |-> ""],
      [kind |-> "text", text |-> " \n"],
      [kind |-> "text", text |-> "Revenue reached $1,234,567 this quarter."],
      [kind |-> "text", text |-> "Query results show 2 customers."],
      [kind |-> "text", text |-> "Top customers are listed.\nThe query returned 2 rows" ] }

NoRequest == [userQuery |-> "", includeSchema |-> FALSE, maxRows |-> [given |-> FALSE, value |-> 0]]
NoSchema == [has_tables |-> FALSE, tables |-> {}, schema |-> {}]
NoSqlBackend == [called |-> FALSE, raised |-> FALSE, reply |-> "", fault |-> "none"]
NoAnswerBackend == [called |-> FALSE, kind |-> "", text |-> ""]
\* format_answer has not computed a Business Context
NoContext ==
    [has_data |-> FALSE, row_count |-> -1, key_metrics |-> << >>, trends |-> << >>,
     insights |-> << >>, has_columns |-> FALSE, columns |-> << >>]
NoResponse == [status |-> 0, detail |-> "", sql |-> "", rows |-> << >>, answer |-> "", row_count |-> 0]

\* raise HTTPException(status_code, detail), and an exception run_query
\* does not catch, which the framework answers with status 500
HttpError(status, detail) ==
    [status |-> status, detail |-> detail, sql |-> "", rows |-> << >>, answer |-> "", row_count |-> 0]

\* os.environ without the variable, and with it set to a text
NoEnv == [set |-> FALSE, value |-> ""]
Env(text) == [set |-> TRUE, value |-> text]

\* os.getenv("USE_LOCAL_FALLBACK", "false").lower() == "true", evaluated
\* when sql_generator and answer_formatter are imported
ImportedFlag(env) == Lower(IF env.set THEN env.value ELSE "false") = "true"

\* the locals of a request that has not been received
NoLocals ==
    [pc |-> "idle", req |-> NoRequest, schema |-> NoSchema, detailed_schema |-> NoSchema,
     sql_backend |-> NoSqlBackend, sql |-> "", safe |-> "unset", max_rows |-> 0,
     wrapped_sql |-> "", params |-> [_limit |-> 0], session |-> "none",
     executed |-> << >>, rows |-> << >>, answer_backend |-> NoAnswerBackend,
     response |-> NoResponse, log |-> << >>, raised |-> {}, query_type |-> "",
     business_context |-> NoContext, classified |-> << >>]

\* a process serving one request at a time, outside test_pipeline: the
\* modules were imported with the environment as it is
OneRequestProcess ==
    /\ environ \in {NoEnv, Env("true")}
    /\ USE_LOCAL_FALLBACK = ImportedFlag(environ)
    /\ original_env = NoEnv
    /\ suspended = NoLocals

\* the state of a request before its first step
Fresh ==
    /\ schema' = NoSchema
    /\ detailed_schema' = NoSchema
    /\ sql_backend' = NoSqlBackend
    /\ sql' = ""
    /\ safe' = "unset"
    /\ max_rows' = 0
    /\ wrapped_sql' = ""
    /\ params' = [_limit |-> 0]
    /\ session' = "none"
    /\ executed' = << >>
    /\ rows' = << >>
    /\ answer_backend' = NoAnswerBackend
    /\ log' = << >>
    /\ raised' = {}
    /\ query_type' = ""
    /\ business_context' = NoContext

\* no request received yet
Idle ==
    /\ req = NoRequest
    /\ schema = NoSchema
    /\ detailed_schema = NoSchema
    /\ sql_backend = NoSqlBackend
    /\ session = "none"
    /\ executed = << >>
    /\ rows = << >>
    /\ answer_backend = NoAnswerBackend
    /\ response = NoResponse
    /\ log = << >>
    /\ raised = {}
    /\ query_type = ""
    /\ business_context = NoContext
    /\ classified = << >>

Init ==
    /\ pc = "idle"
    /\ USE_LOCAL_FALLBACK \in BOOLEAN
    /\ OneRequestProcess
    /\ db_tables \in Databases
    /\ Idle
    /\ sql = ""
    /\ safe = "unset"
    /\ max_rows = 0
    /\ wrapped_sql = ""
    /\ params = [_limit |-> 0]

\* a request arrives; an empty userQuery is refused
Receive ==
    /\ pc \in {"idle", "done"}
    /\ \E q \in UserQueries, inc \in BOOLEAN, mr \in MaxRowsInputs :
          /\ req' = [userQuery |-> q, includeSchema |-> inc, maxRows |-> mr]
          /\ IF q = "" \/ Strip(q) = ""
             THEN /\ response' = HttpError(400, "Empty userQuery")
                  /\ pc' = "done"
             ELSE /\ response' = NoResponse
                  /\ pc' = "schema"
    /\ Fresh
    /\ UNCHANGED <<process_vars, USE_LOCAL_FALLBACK, db_tables, classified>>

\* schema = get_schema_summary() if req.includeSchema else {...}; the
\* summary has the keys "schema" and "samples"
LoadSchema ==
    /\ pc = "schema"
    /\ \E loaded \in (IF req.includeSchema THEN BOOLEAN ELSE {TRUE}) :
          IF loaded
          THEN /\ schema' = [has_tables |-> FALSE, tables |-> {},
                             schema |-> IF req.includeSchema THEN db_tables ELSE {}]
               /\ log' = IF req.includeSchema THEN Append(log, "get_schema_summary") ELSE log
               /\ pc' = "generate"
               /\ UNCHANGED <<response, raised>>
          ELSE /\ response' = HttpError(500, "Internal Server Error")
               /\ log' = Append(log, "get_schema_summary")
               /\ raised' = raised \cup {"get_schema_summary"}
               /\ pc' = "done"
               /\ UNCHANGED schema
    /\ UNCHANGED <<process_vars, interpreter_vars, USE_LOCAL_FALLBACK, db_tables, req, detailed_schema, sql_backend,
                   sql, safe, max_rows, wrapped_sql, params, session, executed,
                   rows, answer_backend>>

\* generate_sql up to the backend call: the local bypass and the loading of
\* the detailed schema
SynthStart ==
    /\ pc = "generate"
    /\ IF USE_LOCAL_FALLBACK
       THEN /\ sql' = generate_local_sql(req.userQuery, schema)
            /\ log' = log \o <<"generate_sql", "generate_local_sql">>
            /\ pc' = "gate"
            /\ UNCHANGED <<detailed_schema, raised>>
       ELSE \E loaded \in BOOLEAN :
               IF loaded
               THEN /\ detailed_schema' = [has_tables |-> TRUE, tables |-> db_tables,
                                           schema |-> {}]
                    /\ log' = log \o <<"generate_sql", "get_detailed_schema">>
                    /\ pc' = "backend_sql"
                    /\ UNCHANGED <<sql, raised>>
               ELSE /\ sql' = generate_local_sql(req.userQuery, schema)
                    /\ log' = log \o <<"generate_sql", "get_detailed_schema",
                                       "generate_local_sql">>
                    /\ raised' = raised \cup {"get_detailed_schema"}
                    /\ pc' = "gate"
                    /\ UNCHANGED detailed_schema
    /\ UNCHANGED <<process_vars, interpreter_vars, USE_LOCAL_FALLBACK, db_tables, req, schema, sql_backend, safe,
                   max_rows, wrapped_sql, params, session, executed, rows,
                   answer_backend, response>>

\* generate_sql from the backend call on, and run_query's handling of an
\* exception of generate_sql
SynthBackend ==
    /\ pc = "backend_sql"
    /\ \E o \in SqlBackendOutcomes, fault \in Faults :
       \E body \in {generate_sql_try(req.userQuery, detailed_schema, o, fault)} :
       \E r \in {generate_sql_reply(req.userQuery, detailed_schema, o, fault)} :
          /\ sql_backend' = [called |-> TRUE, raised |-> o.raised,
                             reply |-> o.reply, fault |-> fault]
          /\ raised' = raised \cup (IF o.raised THEN {"call_groq_chat"}
                                    ELSE IF body.raised THEN {fault}
                                    ELSE {})
          /\ IF r.raised
             THEN /\ response' = HttpError(500, "SQL generation error")
                  /\ pc' = "done"
                  /\ UNCHANGED sql
             ELSE /\ sql' = r.value
                  /\ pc' = "gate"
                  /\ UNCHANGED response
          /\ log' = Append(log, "call_groq_chat") \o r.calls
    /\ UNCHANGED <<process_vars, interpreter_vars, USE_LOCAL_FALLBACK, db_tables, req, schema, detailed_schema, safe,
                   max_rows, wrapped_sql, params, session, executed, rows,
                   answer_backend>>

\* a faulty SafetyGate: a rejected candidate is passed on
SafetyGate_unchecked ==
    /\ pc = "gate"
    /\ IF sql = ""
       THEN /\ response' = HttpError(500, "LLM returned empty SQL")
            /\ pc' = "done"
            /\ UNCHANGED <<safe, log>>
       ELSE /\ log' = Append(log, "is_safe_select")
            /\ safe' = IF is_safe_select(sql) THEN "accept" ELSE "reject"
            /\ pc' = "limit"
            /\ UNCHANGED response
    /\ UNCHANGED <<process_vars, interpreter_vars, USE_LOCAL_FALLBACK, db_tables, req, schema, detailed_schema,
                   sql_backend, sql, max_rows, wrapped_sql, params, session,
                   executed, rows, answer_backend, raised>>

\* if not sql: ...; if not is_safe_select(sql): ...
SafetyGate ==
    /\ pc = "gate"
    /\ IF sql = ""
       THEN /\ response' = HttpError(500, "LLM returned empty SQL")
            /\ pc' = "done"
            /\ UNCHANGED <<safe, log>>
       ELSE /\ log' = Append(log, "is_safe_select")
            /\ IF is_safe_select(sql)
               THEN /\ safe' = "accept"
                    /\ pc' = "limit"
                    /\ UNCHANGED response
               ELSE /\ safe' = "reject"
                    /\ response' = HttpError(400, "Generated SQL did not pass safety checks (non-SELECT or disallowed keywords).")
                    /\ pc' = "done"
    /\ UNCHANGED <<process_vars, interpreter_vars, USE_LOCAL_FALLBACK, db_tables, req, schema, detailed_schema,
                   sql_backend, sql, max_rows, wrapped_sql, params, session,
                   executed, rows, answer_backend, raised>>

\* a faulty EnforceLimit: a candidate with a LIMIT of its own is not wrapped
EnforceLimit_unless_limited ==
    /\ pc = "limit"
    /\ \E m \in {IF req.maxRows.given /\ req.maxRows.value # 0
                 THEN req.maxRows.value
                 ELSE MAX_ROWS_DEFAULT} :
       \E w \in {IF Contains(Upper(sql), "LIMIT")
                 THEN [wrapped_sql |-> sql, params |-> [_limit |-> m]]
                 ELSE wrap_with_limit(sql, m)} :
           /\ max_rows' = m
           /\ wrapped_sql' = w.wrapped_sql
           /\ params' = w.params
    /\ log' = Append(log, "wrap_with_limit")
    /\ pc' = "session"
    /\ UNCHANGED <<process_vars, interpreter_vars, USE_LOCAL_FALLBACK, db_tables, req, schema, detailed_schema,
                   sql_backend, sql, safe, session, executed, rows, answer_backend,
                   response, raised>>

\* max_rows = int(req.maxRows) if req.maxRows else int(os.getenv(...));
\* wrapped_sql, params = wrap_with_limit(sql, max_rows)
EnforceLimit ==
    /\ pc = "limit"
    /\ \E m \in {IF req.maxRows.given /\ req.maxRows.value # 0
                 THEN req.maxRows.value
                 ELSE MAX_ROWS_DEFAULT} :
       \E w \in {wrap_with_limit(sql, m)} :
           /\ max_rows' = m
           /\ wrapped_sql' = w.wrapped_sql
           /\ params' = w.params
    /\ log' = Append(log, "wrap_with_limit")
    /\ pc' = "session"
    /\ UNCHANGED <<process_vars, interpreter_vars, USE_LOCAL_FALLBACK, db_tables, req, schema, detailed_schema,
                   sql_backend, sql, safe, session, executed, rows, answer_backend,
                   response, raised>>

\* with SessionLocal() as session
OpenSession ==
    /\ pc = "session"
    /\ \E opened \in BOOLEAN :
          IF opened
          THEN /\ session' = "open"
               /\ pc' = "execute"
               /\ UNCHANGED <<response, raised>>
          ELSE /\ response' = HttpError(500, "SQL execution error")
               /\ raised' = raised \cup {"SessionLocal"}
               /\ pc' = "done"
               /\ UNCHANGED session
    /\ log' = Append(log, "SessionLocal")
    /\ UNCHANGED <<process_vars, interpreter_vars, USE_LOCAL_FALLBACK, db_tables, req, schema, detailed_schema,
                   sql_backend, sql, safe, max_rows, wrapped_sql, params, executed,
                   rows, answer_backend>>

\* a faulty Execute: a failure of the database leaves an empty Row Set
Execute_swallowed ==
    /\ pc = "execute"
    /\ session = "open"
    /\ executed' = Append(executed, [statement |-> wrapped_sql, params |-> params])
    /\ session' = "closed"
    /\ \E o \in ExecOutcomes :
          /\ rows' = o.rows
          /\ raised' = IF o.failed THEN raised \cup {"execute"} ELSE raised
          /\ pc' = "format"
          /\ UNCHANGED response
    /\ log' = Append(log, "execute")
    /\ UNCHANGED <<process_vars, interpreter_vars, USE_LOCAL_FALLBACK, db_tables, req, schema, detailed_schema,
                   sql_backend, sql, safe, max_rows, wrapped_sql, params,
                   answer_backend>>

\* a faulty Execute: the session is released on the success path only
Execute_unreleased ==
    /\ pc = "execute"
    /\ session = "open"
    /\ executed' = Append(executed, [statement |-> wrapped_sql, params |-> params])
    /\ \E o \in ExecOutcomes :
          IF o.failed
          THEN /\ response' = HttpError(500, "SQL execution error")
               /\ raised' = raised \cup {"execute"}
               /\ session' = "open"
               /\ pc' = "done"
               /\ UNCHANGED rows
          ELSE /\ rows' = o.rows
               /\ session' = "closed"
               /\ pc' = "format"
               /\ UNCHANGED <<response, raised>>
    /\ log' = Append(log, "execute")
    /\ UNCHANGED <<process_vars, interpreter_vars, USE_LOCAL_FALLBACK, db_tables, req, schema, detailed_schema,
                   sql_backend, sql, safe, max_rows, wrapped_sql, params,
                   answer_backend>>

\* session.execute(text(wrapped_sql), params), fetchall, and the end of the
\* with block
Execute ==
    /\ pc = "execute"
    /\ session = "open"
    /\ executed' = Append(executed, [statement |-> wrapped_sql, params |-> params])
    /\ session' = "closed"
    /\ \E o \in ExecOutcomes :
          IF o.failed
          THEN /\ response' = HttpError(500, "SQL execution error")
               /\ raised' = raised \cup {"execute"}
               /\ pc' = "done"
               /\ UNCHANGED rows
          ELSE /\ rows' = o.rows
               /\ pc' = "format"
               /\ UNCHANGED <<response, raised>>
    /\ log' = Append(log, "execute")
    /\ UNCHANGED <<process_vars, interpreter_vars, USE_LOCAL_FALLBACK, db_tables, req, schema, detailed_schema,
                   sql_backend, sql, safe, max_rows, wrapped_sql, params,
                   answer_backend>>

\* the response of a request that ran to its end
Success(a) ==
    [status |-> 200, detail |-> "", sql |-> sql, rows |-> rows, answer |-> a,
     row_count |-> Len(rows)]

\* format_answer up to the backend call: the local bypass, or the
\* classification, the Business Context and the table names for the prompt
FormatStart ==
    /\ pc = "format"
    /\ IF USE_LOCAL_FALLBACK
       THEN /\ response' = Success(generate_local_answer(req.userQuery, sql, rows))
            /\ log' = log \o <<"format_answer", "generate_local_answer">>
            /\ pc' = "done"
            /\ UNCHANGED <<query_type, business_context, raised>>
       ELSE \E type \in {detect_query_type(sql, req.userQuery)}, loaded \in BOOLEAN :
               /\ query_type' = type
               /\ business_context' = prepare_business_context(type, rows)
               /\ log' = log \o <<"format_answer", "detect_query_type",
                                  "prepare_business_context", "get_detailed_schema">>
               /\ raised' = IF loaded THEN raised
                            ELSE raised \cup {"format_answer.get_detailed_schema"}
               /\ pc' = "backend_answer"
               /\ UNCHANGED response
    /\ UNCHANGED <<process_vars, classified, USE_LOCAL_FALLBACK, db_tables, req, schema, detailed_schema,
                   sql_backend, sql, safe, max_rows, wrapped_sql, params, session,
                   executed, rows, answer_backend>>

\* format_answer from the backend call on, run_query's handling of an
\* exception of format_answer, and the response
FormatBackend ==
    /\ pc = "backend_answer"
    /\ \E o \in AnswerOutcomes :
       \E r \in {format_answer_reply(req.userQuery, sql, rows, o)} :
          /\ answer_backend' = [called |-> TRUE, kind |-> o.kind, text |-> o.text]
          /\ raised' = IF o.kind = "raise" THEN raised \cup {"call_groq_chat"} ELSE raised
          /\ response' = Success(IF r.raised THEN "(Answer formatting failed)"
                                 ELSE r.value)
          /\ log' = Append(log, "call_groq_chat") \o r.calls
    /\ pc' = "done"
    /\ UNCHANGED <<process_vars, interpreter_vars, USE_LOCAL_FALLBACK, db_tables, req, schema, detailed_schema,
                   sql_backend, sql, safe, max_rows, wrapped_sql, params, session,
                   executed, rows>>

Next ==
    \/ Receive
    \/ LoadSchema
    \/ SynthStart
    \/ SynthBackend
    \/ SafetyGate
    \/ EnforceLimit
    \/ OpenSession
    \/ Execute
    \/ FormatStart
    \/ FormatBackend

Spec == Init /\ [][Next]_vars

-----------------------------------------------------------------------------
(* The sanitizer applied to arbitrary candidate strings *)

Fragments ==
    { "SELECT * FROM orders", "SELECT", "select", "Select\n", " ", "ed",
      "DROP TABLE customers; ", "SELECT * FROM customers", " Update",
      "-", ";", " LIMIT 5", "(", ")" }

RECURSIVE FragStrings(_)
FragStrings(n) ==
    IF n = 0 THEN {""}
    ELSE LET shorter == FragStrings(n - 1)
         IN  shorter \cup {s \o f : s \in shorter, f \in Fragments}

CandidateStrings == FragStrings(MaxFrags)

RowLimits == {1, 50, 1000}

InitGate ==
    /\ pc = "gate_check"
    /\ sql \in CandidateStrings
    /\ safe = "unset"
    /\ max_rows \in RowLimits
    /\ wrapped_sql = ""
    /\ params = [_limit |-> 0]
    /\ USE_LOCAL_FALLBACK = FALSE
    /\ OneRequestProcess
    /\ db_tables = {}
    /\ Idle

\* is_safe_select(sql)
GateCheck ==
    /\ pc = "gate_check"
    /\ safe' = IF is_safe_select(sql) THEN "accept" ELSE "reject"
    /\ pc' = "gate_wrap"
    /\ UNCHANGED <<sql, max_rows, wrapped_sql, params>>
    /\ UNCHANGED request_vars

\* wrap_with_limit(sql, max_rows)
GateWrap ==
    /\ pc = "gate_wrap"
    /\ \E w \in {wrap_with_limit(sql, max_rows)} :
           /\ wrapped_sql' = w.wrapped_sql
           /\ params' = w.params
    /\ pc' = "gate_done"
    /\ UNCHANGED <<sql, safe, max_rows>>
    /\ UNCHANGED request_vars

NextGate == GateCheck \/ GateWrap

SpecGate == InitGate /\ [][NextGate]_vars

-----------------------------------------------------------------------------
(* The fallback synthesizer applied to arbitrary questions and schemas *)

QuestionWords ==
    { "Customer", "spent", "product", "sold", "order", "revenue", "monthly",
      "country", "detail", "item", "hello", "update" }

RECURSIVE Questions(_)
Questions(n) ==
    IF n = 0 THEN {""}
    ELSE LET shorter == Questions(n - 1)
         IN  shorter \cup {IF q = "" THEN w ELSE q \o " " \o w :
                              q \in shorter, w \in QuestionWords}

\* the questions of the scenarios of the specification and of test_pipeline
ScenarioQuestions ==
    { "Show top 5 customers", "Show me the top 5 customers", "show line item" }

\* schema descriptions: without the key "tables", and with any set of tables
SchemaSummaries ==
    {NoSchema} \cup {[has_tables |-> TRUE, tables |-> t, schema |-> {}] : t \in SUBSET TableNames}

InitFallback ==
    /\ pc = "fallback_generate"
    /\ req \in {[userQuery |-> q, includeSchema |-> FALSE,
                 maxRows |-> [given |-> FALSE, value |-> 0]] :
                    q \in Questions(MaxWords) \cup ScenarioQuestions}
    /\ schema \in SchemaSummaries
    /\ USE_LOCAL_FALLBACK = TRUE
    /\ OneRequestProcess
    /\ db_tables = schema.tables
    /\ detailed_schema = NoSchema
    /\ sql_backend = NoSqlBackend
    /\ sql = ""
    /\ safe = "unset"
    /\ max_rows = 0
    /\ wrapped_sql = ""
    /\ params = [_limit |-> 0]
    /\ session = "none"
    /\ executed = << >>
    /\ rows = << >>
    /\ answer_backend = NoAnswerBackend
    /\ response = NoResponse
    /\ log = << >>
    /\ raised = {}
    /\ query_type = ""
    /\ business_context = NoContext
    /\ classified = << >>

\* generate_local_sql(user_question, schema_summary)
FallbackGenerate ==
    /\ pc = "fallback_generate"
    /\ sql' = generate_local_sql(req.userQuery, schema)
    /\ pc' = "fallback_gate"
    /\ UNCHANGED <<safe, max_rows, wrapped_sql, params>>
    /\ UNCHANGED request_vars

\* is_safe_select on the statement of the fallback
FallbackGate ==
    /\ pc = "fallback_gate"
    /\ safe' = IF is_safe_select(sql) THEN "accept" ELSE "reject"
    /\ pc' = "fallback_done"
    /\ UNCHANGED <<sql, max_rows, wrapped_sql, params>>
    /\ UNCHANGED request_vars

NextFallback == FallbackGenerate \/ FallbackGate

SpecFallback == InitFallback /\ [][NextFallback]_vars

-----------------------------------------------------------------------------
(* clean_sql applied to arbitrary replies of the backend, and applied again *)
(* to its own result                                                        *)

ReplyFragments ==
    { "SELECT * FROM orders", "SELECT COUNT(*) FROM orders", "Sure: ", " ", ";", "\n",
      " LIMIT 5", Fence \o "sql\n", Fence }

RECURSIVE ReplyStrings(_)
ReplyStrings(n) ==
    IF n = 0 THEN {""}
    ELSE LET shorter == ReplyStrings(n - 1)
         IN  shorter \cup {s \o f : s \in shorter, f \in ReplyFragments}

InitClean ==
    /\ pc = "clean"
    /\ sql_backend \in {[called |-> TRUE, raised |-> FALSE, reply |-> r, fault |-> "none"] :
                           r \in ReplyStrings(MaxFrags)}
    /\ USE_LOCAL_FALLBACK = FALSE
    /\ OneRequestProcess
    /\ db_tables = TableNames
    /\ req = NoRequest
    /\ schema = NoSchema
    /\ detailed_schema = NoSchema
    /\ sql = ""
    /\ safe = "unset"
    /\ max_rows = 0
    /\ wrapped_sql = ""
    /\ params = [_limit |-> 0]
    /\ session = "none"
    /\ executed = << >>
    /\ rows = << >>
    /\ answer_backend = NoAnswerBackend
    /\ response = NoResponse
    /\ log = << >>
    /\ raised = {}
    /\ query_type = ""
    /\ business_context = NoContext
    /\ classified = << >>

\* sql = clean_sql(sql) on the reply of the backend
Clean ==
    /\ pc = "clean"
    /\ sql' = clean_sql(sql_backend.reply)
    /\ log' = Append(log, "clean_sql")
    /\ pc' = "clean_again"
    /\ UNCHANGED <<process_vars, USE_LOCAL_FALLBACK, db_tables, req, schema, detailed_schema,
                   sql_backend, safe, max_rows, wrapped_sql, params, session,
                   executed, rows, answer_backend, response, raised, interpreter_vars>>

\* clean_sql on a normalized candidate
CleanAgain ==
    /\ pc = "clean_again"
    /\ sql' = clean_sql(sql)
    /\ log' = Append(log, "clean_sql")
    /\ pc' = "cleaned"
    /\ UNCHANGED <<process_vars, USE_LOCAL_FALLBACK, db_tables, req, schema, detailed_schema,
                   sql_backend, safe, max_rows, wrapped_sql, params, session,
                   executed, rows, answer_backend, response, raised, interpreter_vars>>

NextClean == Clean \/ CleanAgain

SpecClean == InitClean /\ [][NextClean]_vars

-----------------------------------------------------------------------------
(* The Result Interpreter applied to arbitrary SQL texts and Row Sets, one  *)
(* invocation after another                                                 *)

\* Largest number of invocations of the Result Interpreter in a behaviour
MaxCalls == 2

\* SQL texts, one for each category of detect_query_type at least
InterpreterSqls ==
    { "SELECT SUM(order_items.quantity) FROM order_items",
      "SELECT SUM(total_amount) AS total_revenue FROM sales",
      "SELECT 1",
      "SELECT * FROM customers",
      "SELECT * FROM products",
      "SELECT * FROM orders",
      "SELECT c.name, p.name FROM customers c JOIN orders o ON c.customer_id = o.customer_id JOIN products p ON p.product_id = o.product_id",
      "SELECT c.name, SUM(o.total_amount) AS total_spent FROM customers c JOIN orders o ON c.customer_id = o.customer_id GROUP BY c.name",
      "select c.name from customers c join orders o on c.customer_id = o.customer_id",
      "SELECT c.name, o.total_amount FROM customers c JOIN orders o ON c.customer_id = o.customer_id",
      "SELECT p.name, COUNT(*) AS sold_count FROM products p JOIN suppliers s ON p.supplier_id = s.id GROUP BY p.name",
      "SELECT DATE_TRUNC('month', s.day) AS month, s.amount FROM sales s JOIN regions r ON s.region_id = r.id",
      "SELECT r.name, s.day FROM regions r JOIN sales s ON s.region_id = r.id" }

InterpreterQuestions == { "total quantity sold", "Show top 5 customers" }

InterpreterRowSets ==
    { << >>,
      << <<IntCell("total_quantity", 1234)>> >>,
      << <<StrCell("name", "Ann"), IntCell("total_spent", 1500)>>,
         <<StrCell("name", "Bob"), IntCell("total_spent", 250)>> >>,
      << <<StrCell("month", "2024-02"), IntCell("amount", 150)>>,
         <<StrCell("month", "2024-01"), IntCell("amount", 100)>>,
         <<StrCell("month", "2024-03"), NullCell("amount")>> >>,
      << <<StrCell("month", "2024-01"), IntCell("amount", 100), IntCell("units", 5)>>,
         <<StrCell("month", "2024-02"), IntCell("amount", 150), IntCell("units", 10)>> >> }

InterpreterRequests ==
    { [userQuery |-> q, includeSchema |-> FALSE, maxRows |-> [given |-> FALSE, value |-> 0]] :
          q \in InterpreterQuestions }

InitInterpret ==
    /\ pc = "classify"
    /\ USE_LOCAL_FALLBACK \in BOOLEAN
    /\ OneRequestProcess
    /\ req \in InterpreterRequests
    /\ sql \in InterpreterSqls
    /\ rows \in InterpreterRowSets
    /\ db_tables = TableNames
    /\ schema = NoSchema
    /\ detailed_schema = NoSchema
    /\ sql_backend = NoSqlBackend
    /\ safe = "unset"
    /\ max_rows = 0
    /\ wrapped_sql = ""
    /\ params = [_limit |-> 0]
    /\ session = "none"
    /\ executed = << >>
    /\ answer_backend = NoAnswerBackend
    /\ response = NoResponse
    /\ log = << >>
    /\ raised = {}
    /\ query_type = ""
    /\ business_context = NoContext
    /\ classified = << >>

\* query_type = detect_query_type(sql, user_question)
Classify ==
    /\ pc = "classify"
    /\ \E type \in {detect_query_type(sql, req.userQuery)} :
          /\ query_type' = type
          /\ classified' = Append(classified,
                                  [sql |-> sql, question |-> req.userQuery,
                                   use_local_fallback |-> USE_LOCAL_FALLBACK,
                                   category |-> type])
    /\ log' = Append(log, "detect_query_type")
    /\ pc' = "context"
    /\ UNCHANGED <<process_vars, USE_LOCAL_FALLBACK, db_tables, req, schema, detailed_schema,
                   sql_backend, sql, safe, max_rows, wrapped_sql, params, session,
                   executed, rows, answer_backend, response, raised, business_context>>

\* business_context = prepare_business_context(query_type, rows)
Context ==
    /\ pc = "context"
    /\ business_context' = prepare_business_context(query_type, rows)
    /\ log' = Append(log, "prepare_business_context")
    /\ pc' = "narrate"
    /\ UNCHANGED <<process_vars, USE_LOCAL_FALLBACK, db_tables, req, schema, detailed_schema,
                   sql_backend, sql, safe, max_rows, wrapped_sql, params, session,
                   executed, rows, answer_backend, response, raised, query_type,
                   classified>>

\* generate_local_answer(user_question, sql, rows)
Narrate ==
    /\ pc = "narrate"
    /\ response' = Success(generate_local_answer(req.userQuery, sql, rows))
    /\ log' = Append(log, "generate_local_answer")
    /\ pc' = "interpreted"
    /\ UNCHANGED <<process_vars, USE_LOCAL_FALLBACK, db_tables, req, schema, detailed_schema,
                   sql_backend, sql, safe, max_rows, wrapped_sql, params, session,
                   executed, rows, answer_backend, raised, interpreter_vars>>

\* the Result Interpreter is handed another executed query, by a process
\* configured in either way
InterpretNext ==
    /\ pc = "interpreted"
    /\ Len(classified) < MaxCalls
    /\ USE_LOCAL_FALLBACK' \in BOOLEAN
    /\ environ' \in {NoEnv, Env("true")}
    /\ USE_LOCAL_FALLBACK' = ImportedFlag(environ')
    /\ UNCHANGED <<original_env, suspended>>
    /\ req' \in InterpreterRequests
    /\ sql' \in InterpreterSqls
    /\ rows' \in InterpreterRowSets
    /\ query_type' = ""
    /\ business_context' = NoContext
    /\ response' = NoResponse
    /\ log' = << >>
    /\ pc' = "classify"
    /\ UNCHANGED <<db_tables, schema, detailed_schema, sql_backend, safe, max_rows,
                   wrapped_sql, params, session, executed, answer_backend, raised,
                   classified>>

NextInterpret == Classify \/ Context \/ Narrate \/ InterpretNext

SpecInterpret == InitInterpret /\ [][NextInterpret]_vars

-----------------------------------------------------------------------------
(* Properties of the safety gate and the row limiter, under SpecGate *)

\* C1: every string is_safe_select accepts contains, lowercased, none of the
\* substrings insert, update, delete, drop, alter, create, truncate, grant,
\* revoke, copy, ';' and '--', and its first keyword after optional leading
\* whitespace is SELECT; the candidate
\* 'DROP TABLE customers; SELECT * FROM customers' is rejected.
C1_AcceptedIsCleanSelect ==
    LET denied == { "insert", "update", "delete", "drop", "alter", "create",
                    "truncate", "grant", "revoke", "copy", ";", "--" }
        low    == Lower(sql)
        n      == LeadingSpaces(sql)
        last   == CHOOSE e \in n..Len(sql) :
                      /\ \A i \in (n + 1)..e : IsWordChar(Char(sql, i))
                      /\ (e = Len(sql) \/ ~IsWordChar(Char(sql, e + 1)))
        first_keyword == Upper(SubSeq(sql, n + 1, last))
    IN  /\ safe = "accept" =>
              /\ \A w \in denied : ~Contains(low, w)
              /\ first_keyword = "SELECT"
        /\ (sql = "DROP TABLE customers; SELECT * FROM customers" /\ safe # "unset")
              => safe = "reject"

\* an accepted statement that starts with whitespace
C1_Witness ==
    /\ safe = "accept"
    /\ LeadingSpaces(sql) > 0
    /\ Contains(sql, "FROM")

\* C4: for gate-accepted SQL and max_rows > 0 the statement wrap_with_limit
\* returns is the input in parentheses inside SELECT * FROM (...), with exactly
\* one LIMIT keyword outside the parenthesised input; that LIMIT is bound to
\* :_limit, the parameters are {_limit: max_rows}, and the digits of max_rows
\* are not written into the text around the input; an inner LIMIT changes none
\* of this.
C4_OneOuterBoundLimit ==
    (pc = "gate_done" /\ safe = "accept" /\ max_rows > 0) =>
        LET head == "SELECT * FROM ("
            n    == Len(sql)
            out  == wrapped_sql
            tail == SubSeq(out, Len(head) + n + 1, Len(out))
            keyword_at(t, i) ==
                /\ HasAt(Upper(t), i, "LIMIT")
                /\ (i = 1 \/ ~IsWordChar(Char(t, i - 1)))
                /\ (i + 5 > Len(t) \/ ~IsWordChar(Char(t, i + 5)))
            limits(t) == {i \in 1..Len(t) : keyword_at(t, i)}
        IN  /\ Len(out) > Len(head) + n
            /\ SubSeq(out, 1, Len(head)) = head
            /\ SubSeq(out, Len(head) + 1, Len(head) + n) = sql
            /\ StartsWith(tail, ")")
            /\ limits(head) = {}
            /\ Cardinality(limits(tail)) = 1
            /\ EndsWith(tail, " LIMIT :_limit")
            /\ params = [_limit |-> max_rows]
            /\ ~Contains(head, IntToStr(max_rows))
            /\ ~Contains(tail, IntToStr(max_rows))

\* an accepted statement with a LIMIT of its own has been wrapped
C4_Witness ==
    /\ pc = "gate_done"
    /\ safe = "accept"
    /\ Contains(sql, " LIMIT 5")
    /\ max_rows = 50

-----------------------------------------------------------------------------
(* Properties of the fallback synthesizer, under SpecFallback *)

\* C6: for every question and every schema description, one without tables
\* included, is_safe_select accepts the SQL generate_local_sql returns.
C6_FallbackSqlIsAccepted ==
    pc = "fallback_done" => safe = "accept"

\* the fallback statement for a schema description without tables was accepted
C6_Witness ==
    /\ pc = "fallback_done"
    /\ schema.has_tables
    /\ schema.tables = {}
    /\ Contains(req.userQuery, "update")
    /\ safe = "accept"

-----------------------------------------------------------------------------
(* Properties of run_query, under Spec *)

\* C2: a statement is sent to the database only after is_safe_select accepted
\* the candidate and wrap_with_limit wrapped it, in that order; what is
\* executed is the candidate inside the limiting wrapper with the bound row
\* limit, whether or not the candidate has a LIMIT of its own.
C2_ExecutedOnlyGatedAndWrapped ==
    /\ Len(executed) <= 1
    /\ \A i \in 1..Len(executed) :
          /\ safe = "accept"
          /\ is_safe_select(sql)
          /\ executed[i].statement = "SELECT * FROM (" \o sql \o ") AS _sub LIMIT :_limit"
          /\ executed[i].params = [_limit |-> max_rows]
          /\ \E a, b, c \in 1..Len(log) :
                /\ a < b
                /\ b < c
                /\ log[a] = "is_safe_select"
                /\ log[b] = "wrap_with_limit"
                /\ log[c] = "execute"
    /\ pc = "execute" => (safe = "accept" /\ wrapped_sql # "")

\* a candidate with a LIMIT of its own was executed
C2_Witness ==
    /\ Len(executed) = 1
    /\ Contains(sql, "LIMIT")
    /\ response.status = 200

\* C3: when is_safe_select rejects the candidate the request ends with HTTP
\* 400, no database session is opened, no statement is executed and
\* format_answer is not called.
C3_RejectedAbortsBeforeExecution ==
    safe = "reject" =>
        /\ pc = "done"
        /\ response.status = 400
        /\ session = "none"
        /\ executed = << >>
        /\ ~answer_backend.called
        /\ \A i \in 1..Len(log) :
              log[i] \notin {"wrap_with_limit", "SessionLocal", "execute", "format_answer"}

\* a reply of the backend with a second statement was rejected
C3_Witness ==
    /\ safe = "reject"
    /\ sql_backend.fault = "none"
    /\ Contains(sql, "DELETE FROM orders")

\* C7: generate_sql never raises: when the loading of the detailed schema
\* raises it returns generate_local_sql for the schema summary, and when the
\* backend call, clean_sql or attempt_join_fix raises it returns
\* generate_local_sql for the detailed schema.
C7_GenerateSqlNeverRaises ==
    /\ response.detail # "SQL generation error"
    /\ "get_detailed_schema" \in raised
          => sql = generate_local_sql(req.userQuery, schema)
    /\ (sql_backend.raised \/ "clean_sql" \in raised \/ "attempt_join_fix" \in raised)
          => sql = generate_local_sql(req.userQuery, detailed_schema)

\* an exception of the JOIN repair was caught and the request went on
C7_Witness ==
    /\ "attempt_join_fix" \in raised
    /\ sql = generate_local_sql(req.userQuery, detailed_schema)
    /\ response.status = 200

\* C8 as the specification states it: when the backend call of generate_sql
\* raises, or its reply is empty, lacks SELECT, or gives no SELECT statement
\* after clean_sql, the request goes on with generate_local_sql's statement
\* and does not end with an error of the SQL generation.
C8_UnusableReplyIsRecovered ==
    ( /\ pc = "done"
      /\ sql_backend.called
      /\ sql_backend.fault = "none"
      /\ \/ sql_backend.raised
         \/ sql_backend.reply = ""
         \/ ~Contains(Upper(sql_backend.reply), "SELECT")
         \/ ~re_match_select(clean_sql(sql_backend.reply)) )
    => /\ sql = generate_local_sql(req.userQuery, detailed_schema)
       /\ safe # "reject"
       /\ response.detail \notin {"SQL generation error", "LLM returned empty SQL"}

\* C9: when the backend call of format_answer raises or returns an empty or
\* non-text reply, the answer is generate_local_answer's text and the
\* response carries the candidate SQL and all fetched rows.
C9_AnswerFailureKeepsData ==
    ( /\ answer_backend.called
      /\ \/ answer_backend.kind \in {"raise", "nontext"}
         \/ (answer_backend.kind = "text" /\ Strip(answer_backend.text) = "") )
    => /\ pc = "done"
       /\ response.status = 200
       /\ response.answer = generate_local_answer(req.userQuery, sql, rows)
       /\ response.sql = sql
       /\ response.rows = rows
       /\ response.row_count = Len(rows)
       /\ Len(executed) = 1

\* the backend call of format_answer raised after two rows were fetched
C9_Witness ==
    /\ answer_backend.kind = "raise"
    /\ Len(rows) = 2
    /\ response.rows = rows
    /\ response.status = 200

\* C10: when the database fails the bounded statement the request ends with
\* HTTP 500: no success response is given and format_answer is not called.
C10_ExecutionFailureIsSurfaced ==
    ("execute" \in raised \/ "SessionLocal" \in raised) =>
        /\ pc = "done"
        /\ response.status = 500
        /\ response.rows = << >>
        /\ ~answer_backend.called
        /\ \A i \in 1..Len(log) : log[i] # "format_answer"

\* the database failed a statement sent to it
C10_Witness ==
    /\ "execute" \in raised
    /\ Len(executed) = 1
    /\ response.status = 500

\* the positions of the log at which name was called
CallsOf(name) == {i \in 1..Len(log) : log[i] = name}

\* the position of the log at which format_answer was entered, past the end
\* of the log while it has not been
AnswerStage ==
    IF CallsOf("format_answer") = {} THEN Len(log) + 1
    ELSE CHOOSE i \in CallsOf("format_answer") : \A j \in CallsOf("format_answer") : i <= j

\* C11: for one question generate_sql calls the generative backend at most
\* once and format_answer calls it at most once; when a backend call raises,
\* exactly one fallback computation of that stage (generate_local_sql,
\* generate_local_answer) follows it and no second backend call does.
C11_NoRetry ==
    LET sql_calls    == {i \in CallsOf("call_groq_chat") : i < AnswerStage}
        answer_calls == {i \in CallsOf("call_groq_chat") : i > AnswerStage}
    IN  /\ Cardinality(CallsOf("generate_sql")) <= 1
        /\ Cardinality(CallsOf("format_answer")) <= 1
        /\ Cardinality(sql_calls) <= 1
        /\ Cardinality(answer_calls) <= 1
        /\ Cardinality(CallsOf("generate_local_sql")) <= 1
        /\ Cardinality(CallsOf("generate_local_answer")) <= 1
        /\ (sql_backend.called /\ sql_backend.raised) =>
              \E c \in sql_calls :
                  /\ Cardinality({i \in CallsOf("generate_local_sql") : c < i /\ i < AnswerStage}) = 1
                  /\ \A i \in CallsOf("call_groq_chat") : i < AnswerStage => i <= c
        /\ (answer_backend.called /\ answer_backend.kind = "raise") =>
              \E c \in answer_calls :
                  /\ Cardinality({i \in CallsOf("generate_local_answer") : c < i}) = 1
                  /\ \A i \in CallsOf("call_groq_chat") : i <= c

\* the backend call failed in both stages of one request, which was answered
\* from the two fallbacks
C11_Witness ==
    /\ sql_backend.called
    /\ sql_backend.raised
    /\ answer_backend.kind = "raise"
    /\ response.status = 200
    /\ Cardinality(CallsOf("call_groq_chat")) = 2

\* C12 as the specification states it: for a question that is answered, each
\* of the Schema Introspector (get_schema_summary, get_detailed_schema), the
\* SQL Synthesizer (generate_sql), the SQL Safety Gate (is_safe_select), the
\* Row Limiter (wrap_with_limit) and the Result Interpreter (format_answer) is
\* invoked exactly once, in that order.
C12_EachComponentOnceInOrder ==
    (pc = "done" /\ response.status = 200) =>
        LET introspector == CallsOf("get_schema_summary") \cup CallsOf("get_detailed_schema")
            stages == << introspector, CallsOf("generate_sql"), CallsOf("is_safe_select"),
                         CallsOf("wrap_with_limit"), CallsOf("format_answer") >>
        IN  /\ \A k \in 1..5 : Cardinality(stages[k]) = 1
            /\ \A k \in 1..4 : \A i \in stages[k], j \in stages[k + 1] : i < j

-----------------------------------------------------------------------------
(* Properties of the Result Interpreter, under SpecInterpret *)

ClassificationRules(sql_upper) ==
    LET has(w) == Contains(sql_upper, w)
    IN  << [when |-> has("JOIN") /\ has("CUSTOMER") /\ has("PRODUCT"),
            type |-> "customer_product_relationship"],
           [when |-> has("JOIN") /\ has("CUSTOMER") /\ has("ORDER")
                        /\ (has("REVENUE") \/ has("SUM")),
            type |-> "customer_revenue"],
           [when |-> has("JOIN") /\ has("CUSTOMER") /\ has("ORDER"),
            type |-> "customer_orders"],
           [when |-> has("JOIN") /\ has("PRODUCT") /\ (has("SUM") \/ has("COUNT")),
            type |-> "product_sales"],
           [when |-> has("JOIN") /\ (has("DATE_TRUNC") \/ has("MONTH") \/ has("YEAR")),
            type |-> "time_series"],
           [when |-> has("JOIN"), type |-> "multi_table_general"],
           [when |-> has("CUSTOMER"), type |-> "customer_list"],
           [when |-> has("PRODUCT"), type |-> "product_list"],
           [when |-> has("ORDER") /\ has("ITEM"), type |-> "order_details"],
           [when |-> has("ORDER"), type |-> "order_list"],
           [when |-> has("REVENUE") \/ has("SUM") \/ has("TOTAL"), type |-> "aggregate"] >>

\* C14: detect_query_type returns one value of the closed set of twelve
\* categories: the category of the first rule of the rule list (JOIN rules,
\* then entity rules, then the aggregate rule) whose condition the SQL text
\* meets, and general exactly when no rule matches.
C14_FirstMatchingRuleWins ==
    \A i \in 1..Len(classified) :
        \E rules \in {ClassificationRules(Upper(classified[i].sql))} :
        \E matching \in {{k \in 1..Len(rules) : rules[k].when}} :
            /\ classified[i].category \in
                  { "customer_product_relationship", "customer_revenue", "customer_orders",
                    "product_sales", "time_series", "multi_table_general", "customer_list",
                    "product_list", "order_details", "order_list", "aggregate", "general" }
            /\ (classified[i].category = "general") <=> (matching = {})
            /\ matching # {} =>
                  classified[i].category =
                      rules[CHOOSE k \in matching : \A m \in matching : k <= m].type

\* a text that meets the conditions of several rules was classified, after a
\* text that meets none
C14_Witness ==
    /\ Len(classified) = 2
    /\ classified[1].category = "general"
    /\ classified[2].category = "order_details"
    /\ Contains(classified[2].sql, "SUM(")

\* the SQL text and the question of Scenario B
ScenarioB ==
    /\ Contains(Upper(sql), "SUM(ORDER_ITEMS.QUANTITY)")
    /\ ~Contains(Upper(sql), "JOIN")
    /\ req.userQuery = "total quantity sold"

\* C18 as the specification states it: for the question 'total quantity
\* sold' and a SQL text with SUM(order_items.quantity) and no JOIN,
\* detect_query_type returns aggregate.
C18_ScenarioB_IsAggregate ==
    (pc # "classify" /\ ScenarioB) => query_type = "aggregate"

\* C19 as the specification states it: for Scenario B and a non-empty Row
\* Set whose first row has a numeric column, the text of generate_local_answer
\* contains the row count and the formatted total of a numeric column.
C19_ScenarioB_NarrativeHasTotal ==
    ( /\ pc = "interpreted"
      /\ ScenarioB
      /\ Len(rows) > 0
      /\ \E i \in 1..Len(rows[1]) : rows[1][i].kind = "int" )
    => /\ Contains(response.answer, IntToStr(Len(rows)))
       /\ \E i \in 1..Len(rows[1]) :
             /\ rows[1][i].kind = "int"
             /\ ~SumColumn(rows, rows[1][i].name).raised
             /\ \/ Contains(response.answer,
                            FormatGrouped2(SumColumn(rows, rows[1][i].name).value))
                \/ Contains(response.answer,
                            " " \o FormatGrouped(SumColumn(rows, rows[1][i].name).value) \o " ")

\* C20: for an empty Row Set prepare_business_context returns has_data =
\* False and row_count = 0 with empty key_metrics, trends and insights and
\* without the columns any extraction starts from, and generate_local_answer
\* returns 'No matching records found for your query.', whatever the SQL and
\* the question.
C20_EmptyRowSet ==
    /\ (pc \in {"narrate", "interpreted"} /\ rows = << >>) =>
          business_context =
              [has_data |-> FALSE, row_count |-> 0, key_metrics |-> << >>,
               trends |-> << >>, insights |-> << >>, has_columns |-> FALSE,
               columns |-> << >>]
    /\ (pc = "interpreted" /\ rows = << >>) =>
          response.answer = "No matching records found for your query."

\* an empty Row Set was interpreted for a query of a class whose metrics are
\* extracted
C20_Witness ==
    /\ pc = "interpreted"
    /\ rows = << >>
    /\ query_type = "customer_revenue"
    /\ business_context.row_count = 0
    /\ response.status = 200

-----------------------------------------------------------------------------
(* Properties of the normalization, under SpecClean *)

\* C15 as the specification states it: clean_sql applied to a text that
\* clean_sql returned gives that text again, for replies with code fences,
\* trailing semicolons or whitespace, leading prose and aggregate statements.
C15_NormalizationIsIdempotent ==
    [][pc = "clean_again" => sql' = sql]_vars

-----------------------------------------------------------------------------
(* Further properties of generate_sql, under Spec and SpecFallback *)

\* C16 as the specification states it: every candidate SQL generate_sql
\* returns, from the backend or from the fallback, begins with SELECT and
\* contains no statement separator ';'.
C16_CandidateIsOneSelect ==
    pc = "gate" => (re_match_select(sql) /\ ~Contains(sql, ";"))

\* C17 as the specification states it: for the question 'Show top 5
\* customers' and a schema description with the tables customers and orders,
\* generate_local_sql returns the statement that joins customers to orders,
\* groups by customer and orders by total_spent descending, with a LIMIT.
C17_ScenarioA_IsCustomerSpending ==
    ( /\ pc \in {"fallback_gate", "fallback_done"}
      /\ req.userQuery = "Show top 5 customers"
      /\ schema.has_tables
      /\ {"customers", "orders"} \subseteq schema.tables )
    => /\ Contains(sql, "FROM customers c")
       /\ Contains(sql, "JOIN orders o ON c.customer_id = o.customer_id")
       /\ Contains(sql, "GROUP BY c.customer_id")
       /\ Contains(sql, "ORDER BY total_spent DESC")
       /\ Contains(sql, "LIMIT ")

-----------------------------------------------------------------------------
(* Further properties of the fallback synthesizer, under SpecFallback *)

\* C23 as the specification states it: with all four tables in the schema
\* description, a question with a keyword of the group detail / item / line
\* item and with no keyword of the customer, product, order and revenue
\* groups gets the order-item detail join, and a question with no keyword of
\* any group gets the recent orders with customer names.
C23_DetailGroupAndDefault ==
    ( /\ pc \in {"fallback_gate", "fallback_done"}
      /\ schema.has_tables
      /\ schema.tables = {"customers", "orders", "products", "order_items"} )
    => \E question \in {Lower(req.userQuery)} :
          LET any(words) == \E word \in words : Contains(question, word)
              earlier == any({"customer", "client", "buyer", "product", "stock", "order",
                              "purchase", "transaction", "revenue", "sales", "income",
                              "profit"})
              detail  == any({"detail", "item", "line item"})
          IN  /\ (~earlier /\ detail) => sql = SqlOrderItemDetail
              /\ (~earlier /\ ~detail) => sql = SqlRecentOrders

\* C24: when the schema description handed to generate_local_sql has none of
\* the tables customers, orders, products and order_items, or has no
\* 'tables' mapping at all, the statement returned is the metadata query over
\* information_schema.tables, whatever the question.
C24_NoTablesGivesMetadataQuery ==
    ( /\ pc \in {"fallback_gate", "fallback_done"}
      /\ (~schema.has_tables \/ schema.tables = {}) )
    => /\ sql = SqlMetadata
       /\ Contains(sql, "information_schema.tables")
       /\ response = NoResponse

\* a question about customers was answered from a description without the
\* key 'tables'
C24_Witness ==
    /\ pc = "fallback_done"
    /\ ~schema.has_tables
    /\ Contains(req.userQuery, "Customer")
    /\ sql = SqlMetadata
    /\ safe = "accept"

-----------------------------------------------------------------------------
(* Further properties of run_query, under Spec *)

\* C25: the database session of a request is opened only after
\* is_safe_select accepted the candidate and wrap_with_limit wrapped it, one
\* statement at most is executed in it, and it is closed before format_answer
\* is called and before the response or the error is given, on the success
\* and on the failure path; no session is open when the next question
\* arrives.
C25_SessionScopedPerRequest ==
    /\ session = "open" =>
          /\ pc = "execute"
          /\ safe = "accept"
          /\ executed = << >>
          /\ response = NoResponse
          /\ \E a, b, c \in 1..Len(log) :
                /\ a < b
                /\ b < c
                /\ log[a] = "is_safe_select"
                /\ log[b] = "wrap_with_limit"
                /\ log[c] = "SessionLocal"
    /\ session = "closed" => Len(executed) = 1
    /\ Len(executed) <= 1
    /\ pc \in {"format", "backend_answer"} => session = "closed"
    /\ CallsOf("format_answer") # {} => session = "closed"
    /\ pc \in {"idle", "done"} => session # "open"
    /\ response # NoResponse => session # "open"
    /\ pc \in {"idle", "schema", "generate", "backend_sql", "gate", "limit", "session"}
          => session = "none"

\* the database failed the statement and the error was given with the
\* session closed
C25_Witness ==
    /\ "execute" \in raised
    /\ session = "closed"
    /\ response.detail = "SQL execution error"
    /\ pc = "done"


(***************************************************************************)
(* The JOIN repair of generate_sql, over bounded questions                 *)
(***************************************************************************)

JoinWords ==
    { "show", "list", "customer", "product", "order", "who", "history",
      "together", "including", "revenue", "likes" }

RECURSIVE JoinQuestions(_)
JoinQuestions(n) ==
    IF n = 0 THEN {""}
    ELSE With(JoinQuestions(n - 1), LAMBDA shorter :
             shorter \cup {IF q = "" THEN w ELSE q \o " " \o w :
                           q \in shorter \ {""}, w \in JoinWords}
                     \cup JoinWords)

\* run_query has loaded the schema and generate_sql the detailed schema,
\* and the backend is about to be called
InitJoin ==
    /\ pc = "backend_sql"
    /\ USE_LOCAL_FALLBACK = FALSE
    /\ OneRequestProcess
    /\ db_tables = TableNames
    /\ req \in {[userQuery |-> q, includeSchema |-> TRUE,
                 maxRows |-> [given |-> FALSE, value |-> 0]] :
                q \in JoinQuestions(MaxWords) \ {""}}
    /\ schema = [has_tables |-> FALSE, tables |-> {}, schema |-> db_tables]
    /\ detailed_schema = [has_tables |-> TRUE, tables |-> db_tables, schema |-> {}]
    /\ sql_backend = NoSqlBackend
    /\ sql = ""
    /\ safe = "unset"
    /\ max_rows = 0
    /\ wrapped_sql = ""
    /\ params = [_limit |-> 0]
    /\ session = "none"
    /\ executed = << >>
    /\ rows = << >>
    /\ answer_backend = NoAnswerBackend
    /\ response = NoResponse
    /\ log = <<"get_schema_summary", "generate_sql", "get_detailed_schema">>
    /\ raised = {}
    /\ query_type = ""
    /\ business_context = NoContext
    /\ classified = << >>

NextJoin == SynthBackend \/ SafetyGate

SpecJoin == InitJoin /\ [][NextJoin]_vars

\* the two conditions under which a question is said to need several tables
EntityWithAssociate(low) ==
    \/ /\ Contains(low, "customer")
       /\ \E k \in {"order", "product", "buy", "purchase", "history", "spent"} :
             Contains(low, k)
    \/ /\ Contains(low, "product")
       /\ \E k \in {"customer", "who bought", "ordered by", "purchased by", "bought by"} :
             Contains(low, k)
    \/ /\ Contains(low, "order")
       /\ \E k \in {"customer", "product", "item", "detail", "with"} :
             Contains(low, k)

ConnectivePhrase(low) ==
    \E k \in {"together", "along with", "including"} : Contains(low, k)

\* C26: a question is join-requiring exactly when it combines an entity
\* keyword (customer, product, order) with a keyword of that entity's
\* association list, or contains "together", "along with" or "including";
\* a question meeting neither condition is not join-requiring and the JOIN
\* repair (attempt_join_fix) is never run for it
C26_JoinRequiringExactly ==
    (pc = "gate" /\ sql_backend.called /\ ~sql_backend.raised) =>
        \E low \in {Lower(req.userQuery)} :
        \E stated \in {EntityWithAssociate(low) \/ ConnectivePhrase(low)} :
            /\ requires_joins(req.userQuery) <=> stated
            /\ ~stated => CallsOf("attempt_join_fix") = {}

-----------------------------------------------------------------------------
(* Properties of the Business Context of a time series, under SpecInterpret *)

\* the trend as stated: the first date-like column and the first numeric
\* column of the first row, the rows ordered by the text of the date column,
\* the change from the first to the last value in percent
FirstColumnsTrend(rs) ==
    LET sample_row == rs[1]
        n == Len(sample_row)
        date_like(i) == \E k \in {"date", "month", "year", "time", "period"} :
                           Contains(Lower(sample_row[i].name), k)
        dates  == {i \in 1..n : date_like(i)}
        values == {i \in 1..n : ~date_like(i) /\ sample_row[i].kind = "int"}
    IN  IF dates = {} \/ values = {} THEN [stated |-> FALSE, trends |-> << >>]
        ELSE LET date_col  == sample_row[CHOOSE i \in dates : \A j \in dates : i <= j].name
                 value_col == sample_row[CHOOSE i \in values : \A j \in values : i <= j].name
                 key(i) == KeyText(rs[i], date_col)
                 lo == CHOOSE i \in 1..Len(rs) :
                          \A j \in 1..Len(rs) :
                              ~StrLess(key(j), key(i)) /\ (key(j) = key(i) => i <= j)
                 hi == CHOOSE i \in 1..Len(rs) :
                          \A j \in 1..Len(rs) :
                              ~StrLess(key(i), key(j)) /\ (key(j) = key(i) => j <= i)
                 first_val == FloatOrZero(rs[lo], value_col)
                 last_val  == FloatOrZero(rs[hi], value_col)
                 abs(x) == IF x < 0 THEN 0 - x ELSE x
             IN  IF first_val.raised \/ last_val.raised
                    \/ first_val.value = 0 \/ last_val.value = 0
                 THEN [stated |-> FALSE, trends |-> << >>]
                 ELSE LET d == last_val.value - first_val.value
                          up == (d > 0) = (first_val.value > 0)
                      IN  [stated |-> TRUE,
                           trends |-> << "Overall trend: "
                                         \o (IF up THEN "increased" ELSE "decreased")
                                         \o " by " \o FormatPercent(abs(d), abs(first_val.value))
                                         \o "%" >>]

\* C27: for a time_series query the Business Context holds one trend string
\* with the percent change between the first and the last value of the first
\* numeric column, the rows sorted by the first date-like column, whenever
\* both values are non-zero
C27_TrendOfFirstColumns ==
    (pc \in {"narrate", "interpreted"} /\ query_type = "time_series" /\ Len(rows) > 0) =>
        \E t \in {FirstColumnsTrend(rows)} :
            t.stated => business_context.trends = t.trends

-----------------------------------------------------------------------------
(* Properties of the deterministic narrative, under SpecInterpret *)

\* the categories that have a template of their own in generate_local_answer,
\* each with the words that open its template
CategoryTemplates ==
    { [category |-> "customer_product_relationship", phrase |-> "customer-product relationships. For example"],
      [category |-> "customer_revenue", phrase |-> "Customer order analysis shows"],
      [category |-> "customer_orders",  phrase |-> "customer orders in the system"],
      [category |-> "product_sales",    phrase |-> "Product sales analysis shows"],
      [category |-> "customer_list",    phrase |-> "Customer database contains"],
      [category |-> "product_list",     phrase |-> "Product catalog includes"],
      [category |-> "order_details",    phrase |-> "Order details show"],
      [category |-> "order_list",       phrase |-> "Order system contains"],
      [category |-> "aggregate",        phrase |-> "Analysis shows total of"] }

\* C28: for every SQL text and non-empty Row Set the template of the
\* deterministic narrative is the one of the category detect_query_type
\* assigns to the same SQL; the customer-revenue template with its total is
\* used exactly when the category is customer_revenue
C28_TemplateFollowsCategory ==
    (pc = "interpreted" /\ Len(rows) > 0) =>
        \A t \in CategoryTemplates :
            (query_type = t.category) <=> Contains(response.answer, t.phrase)

-----------------------------------------------------------------------------
(* Properties of the narrative of a successful request, under Spec *)

\* C29: whenever format_answer returns, the narrative is a non-empty,
\* non-whitespace string: the removal of the text from a SQL-like word on
\* never leaves an empty answer in place of the deterministic narrative
C29_NarrativeIsNeverEmpty ==
    (pc = "done" /\ response.status = 200 /\ answer_backend.called
        /\ answer_backend.kind # "raise") =>
        /\ response.answer # ""
        /\ Strip(response.answer) # ""

\* C30: the row limit bound to :_limit is a positive integer: maxRows of the
\* request when it is usable, the default MAX_QUERY_ROWS otherwise
C30_LimitIsPositive ==
    CallsOf("wrap_with_limit") # {} =>
        /\ params._limit > 0
        /\ params._limit = max_rows
        /\ IF req.maxRows.given /\ req.maxRows.value > 0
           THEN params._limit = req.maxRows.value
           ELSE params._limit = MAX_ROWS_DEFAULT

-----------------------------------------------------------------------------
(* test_pipeline: generate_sql called for each test question with the      *)
(* environment variable forced, after the generator module was imported    *)

test_questions ==
    << "What was the total revenue last month?",
       "Show me the top 5 customers",
       "Count all products" >>

\* the values of the variable in the environment test_pipeline is started in
TestEnvironments == {NoEnv, Env("true"), Env("false"), Env("")}

\* how many questions of the loop have been started
Started == IF req = NoRequest THEN 0
           ELSE CHOOSE i \in 1..Len(test_questions) : test_questions[i] = req.userQuery

\* the imports and the loading of the schema are done, the loop begins
InitEnv ==
    /\ pc = "test_loop"
    /\ environ \in TestEnvironments
    /\ USE_LOCAL_FALLBACK = ImportedFlag(environ)
    /\ original_env = NoEnv
    /\ suspended = NoLocals
    /\ db_tables \in Databases
    /\ req = NoRequest
    /\ schema = [has_tables |-> FALSE, tables |-> {}, schema |-> db_tables]
    /\ detailed_schema = NoSchema
    /\ sql_backend = NoSqlBackend
    /\ sql = ""
    /\ safe = "unset"
    /\ max_rows = 0
    /\ wrapped_sql = ""
    /\ params = [_limit |-> 0]
    /\ session = "none"
    /\ executed = << >>
    /\ rows = << >>
    /\ answer_backend = NoAnswerBackend
    /\ response = NoResponse
    /\ log = << >>
    /\ raised = {}
    /\ query_type = ""
    /\ business_context = NoContext
    /\ classified = << >>

\* original_env = os.getenv(...); os.environ[...] = "true"; the call of
\* generate_sql(question, schema) begins
TestForce ==
    /\ pc = "test_loop"
    /\ Started < Len(test_questions)
    /\ req' = [userQuery |-> test_questions[Started + 1], includeSchema |-> TRUE,
               maxRows |-> [given |-> FALSE, value |-> 0]]
    /\ original_env' = environ
    /\ environ' = Env("true")
    /\ detailed_schema' = NoSchema
    /\ sql_backend' = NoSqlBackend
    /\ log' = << >>
    /\ raised' = {}
    /\ pc' = "generate"
    /\ UNCHANGED <<interpreter_vars, suspended, USE_LOCAL_FALLBACK, db_tables, schema, sql,
                   safe, max_rows, wrapped_sql, params, session, executed, rows,
                   answer_backend, response>>

\* the safety check of the generated statement, and the restoring of the
\* variable: a saved value that is empty or None removes the variable
TestRestore ==
    /\ pc = "gate"
    /\ safe' = IF is_safe_select(sql) THEN "accept" ELSE "reject"
    /\ log' = Append(log, "is_safe_select")
    /\ environ' = IF original_env.set /\ original_env.value # "" THEN original_env ELSE NoEnv
    /\ pc' = "test_loop"
    /\ UNCHANGED <<interpreter_vars, original_env, suspended, USE_LOCAL_FALLBACK, db_tables,
                   req, schema, detailed_schema, sql_backend, sql, max_rows,
                   wrapped_sql, params, session, executed, rows, answer_backend,
                   response, raised>>

NextEnv == TestForce \/ SynthStart \/ SynthBackend \/ TestRestore

SpecEnv == InitEnv /\ [][NextEnv]_vars

\* C22: with the variable set to "true" just before the call, after the
\* generator module was imported, generate_sql takes the local-fallback
\* path and does not call the backend; after the call the variable has the
\* value it had before
C22_ForcedFallbackAndRestored ==
    /\ pc = "gate" =>
          /\ CallsOf("call_groq_chat") = {}
          /\ log = <<"generate_sql", "generate_local_sql">>
    /\ (pc = "test_loop" /\ req # NoRequest) => environ = original_env

-----------------------------------------------------------------------------
(* Two requests of run_query in one process, their steps interleaved *)

\* the locals of the running request
Locals ==
    [pc |-> pc, req |-> req, schema |-> schema, detailed_schema |-> detailed_schema,
     sql_backend |-> sql_backend, sql |-> sql, safe |-> safe, max_rows |-> max_rows,
     wrapped_sql |-> wrapped_sql, params |-> params, session |-> session,
     executed |-> executed, rows |-> rows, answer_backend |-> answer_backend,
     response |-> response, log |-> log, raised |-> raised, query_type |-> query_type,
     business_context |-> business_context, classified |-> classified]

\* a faulty process: the candidate SQL is kept in one place for all requests
Switch_shared_sql ==
    /\ suspended' = Locals
    /\ pc' = suspended.pc
    /\ req' = suspended.req
    /\ schema' = suspended.schema
    /\ detailed_schema' = suspended.detailed_schema
    /\ sql_backend' = suspended.sql_backend
    /\ safe' = suspended.safe
    /\ max_rows' = suspended.max_rows
    /\ wrapped_sql' = suspended.wrapped_sql
    /\ params' = suspended.params
    /\ session' = suspended.session
    /\ executed' = suspended.executed
    /\ rows' = suspended.rows
    /\ answer_backend' = suspended.answer_backend
    /\ response' = suspended.response
    /\ log' = suspended.log
    /\ raised' = suspended.raised
    /\ query_type' = suspended.query_type
    /\ business_context' = suspended.business_context
    /\ classified' = suspended.classified
    /\ UNCHANGED <<sql, USE_LOCAL_FALLBACK, db_tables, environ, original_env>>

\* the other request runs on: every local of run_query, generate_sql and
\* format_answer belongs to one call, the module constants and the database
\* are the only state the two requests have in common
Switch ==
    /\ suspended' = Locals
    /\ pc' = suspended.pc
    /\ req' = suspended.req
    /\ schema' = suspended.schema
    /\ detailed_schema' = suspended.detailed_schema
    /\ sql_backend' = suspended.sql_backend
    /\ sql' = suspended.sql
    /\ safe' = suspended.safe
    /\ max_rows' = suspended.max_rows
    /\ wrapped_sql' = suspended.wrapped_sql
    /\ params' = suspended.params
    /\ session' = suspended.session
    /\ executed' = suspended.executed
    /\ rows' = suspended.rows
    /\ answer_backend' = suspended.answer_backend
    /\ response' = suspended.response
    /\ log' = suspended.log
    /\ raised' = suspended.raised
    /\ query_type' = suspended.query_type
    /\ business_context' = suspended.business_context
    /\ classified' = suspended.classified
    /\ UNCHANGED <<USE_LOCAL_FALLBACK, db_tables, environ, original_env>>

\* the requests and replies of the two concurrent requests
ConcurrentRequests ==
    { [userQuery |-> "customer order history", includeSchema |-> TRUE,
       maxRows |-> [given |-> FALSE, value |-> 0]],
      [userQuery |-> "monthly revenue", includeSchema |-> TRUE,
       maxRows |-> [given |-> TRUE, value |-> 50]] }
ConcurrentSqlReplies == {"SELECT * FROM customers"}
ConcurrentAnswers == {"", "Revenue reached $1,234,567 this quarter."}

ReceiveOne ==
    /\ pc = "idle"
    /\ Receive
    /\ req' \in ConcurrentRequests

SynthBackendOne ==
    /\ SynthBackend
    /\ sql_backend'.fault = "none"
    /\ sql_backend'.raised \/ sql_backend'.reply \in ConcurrentSqlReplies

ExecuteOne ==
    /\ Execute
    /\ Len(rows') # 1

FormatBackendOne ==
    /\ FormatBackend
    /\ answer_backend'.kind = "text"
    /\ answer_backend'.text \in ConcurrentAnswers

InitConcurrent == Init /\ db_tables = TableNames

NextConcurrent ==
    \/ ReceiveOne
    \/ LoadSchema
    \/ SynthStart
    \/ SynthBackendOne
    \/ SafetyGate
    \/ EnforceLimit
    \/ OpenSession
    \/ ExecuteOne
    \/ FormatStart
    \/ FormatBackendOne
    \/ Switch

SpecConcurrent == InitConcurrent /\ [][NextConcurrent]_vars

\* what a request run alone produces from its question and the replies it
\* was given
SoloSql(l) ==
    IF USE_LOCAL_FALLBACK \/ "get_detailed_schema" \in l.raised
    THEN generate_local_sql(l.req.userQuery, l.schema)
    ELSE generate_sql_reply(l.req.userQuery, l.detailed_schema,
                            [raised |-> l.sql_backend.raised, reply |-> l.sql_backend.reply],
                            l.sql_backend.fault).value

SoloAnswer(l) ==
    IF USE_LOCAL_FALLBACK THEN generate_local_answer(l.req.userQuery, l.sql, l.rows)
    ELSE With(format_answer_reply(l.req.userQuery, l.sql, l.rows,
                                  [kind |-> l.answer_backend.kind,
                                   text |-> l.answer_backend.text]),
              LAMBDA r : IF r.raised THEN "(Answer formatting failed)" ELSE r.value)

SoloLimit(l) ==
    IF l.req.maxRows.given /\ l.req.maxRows.value # 0 THEN l.req.maxRows.value
    ELSE MAX_ROWS_DEFAULT

AsAlone(l) ==
    /\ l.pc \in {"gate", "limit", "session", "execute", "format", "backend_answer"}
          => l.sql = SoloSql(l)
    /\ l.pc \in {"session", "execute", "format", "backend_answer"}
          => /\ l.wrapped_sql = wrap_with_limit(l.sql, SoloLimit(l)).wrapped_sql
             /\ l.params = wrap_with_limit(l.sql, SoloLimit(l)).params
    /\ l.executed # << >>
          => l.executed = <<[statement |-> l.wrapped_sql, params |-> l.params]>>
    /\ (l.pc = "done" /\ l.response.status = 200)
          => /\ l.sql = SoloSql(l)
             /\ l.response.sql = l.sql
             /\ l.response.rows = l.rows
             /\ l.response.answer = SoloAnswer(l)

\* C21: requests processed concurrently share no mutable state: under every
\* interleaving of the steps of two requests the SQL, the rows and the
\* answer of each are the ones it produces when run alone with the same
\* replies of the backend and the database
C21_RequestsDoNotInterfere ==
    AsAlone(Locals) /\ AsAlone(suspended)

\* both requests are in flight with different questions and candidates, one
\* waiting for the database and the other for the narrative
C21_Witness ==
    /\ pc = "backend_answer"
    /\ suspended.pc = "execute"
    /\ req.userQuery # suspended.req.userQuery
    /\ sql # suspended.sql
    /\ rows # << >>
=============================================================================
